---- MODULE Spec2Model ----
(***************************************************************************)
(* Model of the local Eight Sleep integration: the device client          *)
(* (custom_components/eight_sleep_local/localEight/device.py), the two    *)
(* coordinators that poll it and the config entry that owns it            *)
(* (custom_components/eight_sleep_local/__init__.py), and the entities'   *)
(* handlers of user actions (switch.py, button.py, climate.py, number.py, *)
(* text.py).                                                              *)
(*                                                                         *)
(* The client is a LocalEightSleep object: its aiohttp session, the flag  *)
(* saying whether it created that session, and the rolling list of        *)
(* device-status responses.  Every public coroutine is one action, and so *)
(* is one refresh of a coordinator and one handler of an entity; the      *)
(* calls whose interleaving matters (update_device_data, turn_on,         *)
(* get_sleep_records, stop, the trigger-alarm press) are also modelled in *)
(* two steps, around their await.  The device and the network are the     *)
(* environment: each HTTP exchange draws its outcome (an exception, or a  *)
(* status and a body) from a set of answers.                              *)
(***************************************************************************)
EXTENDS Integers, Sequences, FiniteSets, TLC

VARIABLES
    api_session,        \* self._api_session
    internal_session,   \* self._internal_session
    device_json_list,   \* self._device_json_list
    created,            \* number of ClientSession objects start() has built
    closes,             \* per session: number of close() calls made on it
    hung,               \* at_exit is blocked in Future.result() on the loop thread
    nSnap,              \* update_device_data calls answered 200 with a JSON object
    lastSnap,           \* the JSON object of the most recent such call
    odd,                \* device-status answers that were not a non-empty object
    last,               \* the most recent call: operation, arguments, outcome
    status_data,        \* EightSleepDataUpdateCoordinator.data
    health_data,        \* EightSleepHealthCoordinator.data
    poll,               \* the most recent coordinator poll and the data before it
    pending,            \* client calls suspended in their request
    begun,              \* number of suspended calls that sent a request
    finished,           \* per push on the history, in order: the call and its value
    sync_states,        \* hass.data[DOMAIN][entry_id]["sync_states"]
    cached_schedule,    \* per side: EightSleepAlarmScheduleText._cached_schedule
    action,             \* the most recent user action: its calls and its refresh
    pressing,           \* trigger-alarm presses suspended in their first call
    stopping,           \* stop() calls suspended in `await ....close()`
    entry               \* the config entry: where its setup or unload got to

\* The coordinators, and the bookkeeping of suspended fetches
coordVars == << status_data, health_data, poll >>
fetchVars == << pending, begun, finished >>

\* The entities' shared settings and handlers, and the lifecycle of the entry
entityVars == << sync_states, cached_schedule, action, pressing >>
lifeVars == << stopping, entry >>

vars == << api_session, internal_session, device_json_list, created, closes,
           hung, nSnap, lastSnap, odd, last, coordVars, fetchVars,
           entityVars, lifeVars >>

-----------------------------------------------------------------------------
(* Bounds of the model *)

MaxSessions == 2      \* ClientSession objects start() may build
MaxSnapshots == 11    \* device-status objects served in the history runs
MaxPolls == 1         \* device-status objects served in the full client runs
MaxOdd == 1           \* device-status answers other than a non-empty object
MaxPresence == 2      \* distinct presence objects the device reports
MaxFetches == 3       \* update_device_data calls that send a request
MaxPresses == 1       \* trigger-alarm presses suspended at a time
MaxStops == 1         \* stop() calls suspended at a time

(* Program constants *)

HistoryCap == 10
MinTempF == 55
MaxTempF == 110
MinIntensity == 1
MaxIntensity == 100
MinAlarmDuration == 0
MaxAlarmDuration == 180
MinBrightness == 0
MaxBrightness == 100
DefaultOnDuration == 43200

-----------------------------------------------------------------------------
(* Python values.  v is the payload: the truth value of a bool, the stamp *)
(* of a non-empty dict (0 for the empty dict), the length of a list.      *)

PyNone == [t |-> "None", v |-> 0]
PyTrue == [t |-> "bool", v |-> 1]
PyFalse == [t |-> "bool", v |-> 0]
PyDict(n) == [t |-> "dict", v |-> n]
PyList(n) == [t |-> "list", v |-> n]
PyBool(b) == IF b THEN PyTrue ELSE PyFalse

\* bool(x): None, False, {} and [] are falsy
Truthy(x) == x.t # "None" /\ x.v # 0

\* Optional integer argument (duration: int | None)
Absent == [some |-> FALSE, v |-> 0]
Some(n) == [some |-> TRUE, v |-> n]

Sides == {"left", "right"}

-----------------------------------------------------------------------------
(* Sessions *)

NoSession == [owner |-> "none", n |-> 0]
ExtSession == [owner |-> "external", n |-> 0]
OwnSession(k) == [owner |-> "client", n |-> k]
Sessions == {ExtSession} \cup {OwnSession(k) : k \in 1..MaxSessions}

-----------------------------------------------------------------------------
(* The wire: what one HTTP exchange can come to *)

WireBody(txt, n) == [txt |-> txt, n |-> n]
NoBody == WireBody("", 0)

\* Bodies a 200 answer can carry; n stamps the non-empty object
Bodies(n) == { WireBody("null", 0), WireBody("false", 0), WireBody("{}", 0),
               WireBody("{..}", n), WireBody("[..]", 1),
               WireBody("not json", 0), WireBody("text/html", 0) }

Statuses == {200, 201, 204, 500}

RequestErrors == {"ClientError", "TimeoutError", "ConnectionRefusedError"}

Exchange(exc, status, body) == [exc |-> exc, status |-> status, body |-> body]
NoExchange == Exchange("", 0, NoBody)

Exchanges(n) ==
    { Exchange(e, 0, NoBody) : e \in RequestErrors }
    \cup { Exchange("", s, NoBody) : s \in Statuses \ {200} }
    \cup { Exchange("", 200, b) : b \in Bodies(n) }

\* resp.json(): the exception it raises, "" when the body parses
JsonError(body) ==
    CASE body.txt = "text/html" -> "ContentTypeError"
      [] body.txt = "not json" -> "JSONDecodeError"
      [] OTHER -> ""

\* resp.json(): the parsed value of a body that parses (None for no body)
Json(body) ==
    CASE body.txt = "null" -> PyNone
      [] body.txt = "false" -> PyFalse
      [] body.txt = "{}" -> PyDict(0)
      [] body.txt = "{..}" -> PyDict(body.n)
      [] body.txt = "[..]" -> PyList(body.n)
      [] OTHER -> PyNone

\* isinstance(err, (ClientError, asyncio.TimeoutError, ConnectionRefusedError))
Caught(exc) ==
    \/ exc \in {"ClientError", "TimeoutError", "ConnectionRefusedError"}
    \/ exc = "ContentTypeError"      \* a ClientResponseError, so a ClientError

-----------------------------------------------------------------------------
(* api_request *)

NoData == [isNone |-> TRUE, val |-> <<>>]
Data(d) == [isNone |-> FALSE, val |-> d]

\* kwargs of self._api_session.request(**kwargs)
Request(method, api_slug, data) ==
    [method |-> method, path |-> api_slug,
     hasJson |-> ~data.isNone, json |-> data.val]

Outcome(ret, exc, reqs, resp) ==
    [ret |-> ret, exc |-> exc, reqs |-> reqs, resp |-> resp]

Returns(ret, reqs, resp) == Outcome(ret, "", reqs, resp)
Raises(exc, reqs, resp) == Outcome(PyNone, exc, reqs, resp)

\* Variant: the missing session reported as None, like a transport failure
NotStarted_Swallowed == Returns(PyNone, <<>>, NoExchange)

\* `assert self._api_session is not None` on a client that holds no session
NotStarted == Raises("AssertionError", <<>>, NoExchange)

\* The `except` clause: a caught error becomes None, any other propagates
Except(exc, reqs, x) ==
    IF Caught(exc) THEN Returns(PyNone, reqs, x) ELSE Raises(exc, reqs, x)

\* Variant: 201 accepted as success, as `resp.status < 300` would
Respond_Any2xx(reqs, x) ==
    IF x.status = 204 \/ x.status = 201
    THEN Returns(PyTrue, reqs, x)
    ELSE IF x.status = 200
    THEN IF JsonError(x.body) = "" THEN Returns(Json(x.body), reqs, x)
                                   ELSE Except(JsonError(x.body), reqs, x)
    ELSE Returns(PyNone, reqs, x)

\* The body of `async with ... as resp`: the answer mapped by its status
Respond(reqs, x) ==
    IF x.status = 204
    THEN Returns(PyTrue, reqs, x)
    ELSE IF x.status = 200
    THEN IF JsonError(x.body) = "" THEN Returns(Json(x.body), reqs, x)
                                   ELSE Except(JsonError(x.body), reqs, x)
    ELSE Returns(PyNone, reqs, x)

ApiRequest(session, method, api_slug, data, x) ==
    IF session = NoSession
    THEN NotStarted
    ELSE LET reqs == << Request(method, api_slug, data) >>
         IN  IF x.exc # "" THEN Except(x.exc, reqs, x)
                           ELSE Respond(reqs, x)

\* `result is not None and result is not False`
Succeeded(r) ==
    IF r.exc # "" THEN r
    ELSE Returns(PyBool(r.ret # PyNone /\ r.ret # PyFalse), r.reqs, r.resp)

Call(op, args, r) ==
    [op |-> op, args |-> args, ret |-> r.ret, exc |-> r.exc,
     reqs |-> r.reqs, resp |-> r.resp]

NoArgs == <<>>

-----------------------------------------------------------------------------
(* Construction *)

\* What a coordinator poll came to: its requests and their exchanges in
\* order, the value it returned or the exception it raised, and the
\* coordinator's data before it
PollRecord(op, r, before) ==
    [op |-> op, ret |-> r.ret, exc |-> r.exc, reqs |-> r.reqs,
     resps |-> r.resps, before |-> before]

NoPoll ==
    [op |-> "none", ret |-> PyNone, exc |-> "", reqs |-> <<>>,
     resps |-> <<>>, before |-> PyNone]

\* What a user action came to: the entity's handler and side, its argument,
\* the client calls it made in order, whether it asked the status
\* coordinator for a refresh, and the exception it raised
ActionRecord(handler, side, arg, calls, refresh, exc) ==
    [handler |-> handler, side |-> side, arg |-> arg, calls |-> calls,
     refresh |-> refresh, exc |-> exc]

NoArg == [value |-> 0]

NoAction == ActionRecord("none", "", NoArg, <<>>, FALSE, "")

Init ==
    /\ api_session \in {NoSession, ExtSession}
    /\ internal_session = FALSE
    /\ device_json_list = <<>>
    /\ created = 0
    /\ closes = [s \in Sessions |-> 0]
    /\ hung = FALSE
    /\ nSnap = 0
    /\ lastSnap = PyDict(0)
    /\ odd = 0
    /\ last = Call("__init__", NoArgs, Returns(PyNone, <<>>, NoExchange))
    /\ status_data = PyNone
    /\ health_data = PyNone
    /\ poll = NoPoll
    /\ pending = {}
    /\ begun = 0
    /\ finished = <<>>
    /\ sync_states = [sync_mode |-> FALSE, instant_alarm_sync |-> FALSE]
    /\ cached_schedule = [side \in Sides |-> PyNone]
    /\ action = NoAction
    /\ pressing = {}
    /\ stopping = {}
    /\ entry = "not_loaded"

-----------------------------------------------------------------------------
(* Lifecycle *)

\* Variant: start() without its test, building a session on every call
NeedsSession_Always == TRUE

\* `if not self._api_session`
NeedsSession == api_session = NoSession

Start ==
    /\ ~hung
    /\ IF NeedsSession
       THEN /\ created < MaxSessions
            /\ api_session' = OwnSession(created + 1)
            /\ created' = created + 1
            /\ internal_session' = TRUE
       ELSE UNCHANGED << api_session, created, internal_session >>
    /\ last' = Call("start", NoArgs, Returns(PyTrue, <<>>, NoExchange))
    /\ UNCHANGED << device_json_list, closes, hung, nSnap, lastSnap, odd >>
    /\ UNCHANGED << coordVars, fetchVars, entityVars, lifeVars >>

\* Variant: stop() without the ownership flag, closing any held session
OwnsSession_AnyHeld == api_session # NoSession

\* `if self._internal_session and self._api_session`
OwnsSession == internal_session /\ api_session # NoSession

\* The body of stop(): close the session and drop it, or do nothing
StopSession ==
    IF OwnsSession
    THEN /\ closes' = [closes EXCEPT ![api_session] = @ + 1]
         /\ api_session' = NoSession
    ELSE UNCHANGED << api_session, closes >>

Stop ==
    /\ ~hung
    /\ StopSession
    /\ last' = Call("stop", NoArgs, Returns(PyNone, <<>>, NoExchange))
    /\ UNCHANGED << internal_session, device_json_list, created, hung,
                    nSnap, lastSnap, odd >>
    /\ UNCHANGED << coordVars, fetchVars, entityVars, lifeVars >>

\* at_exit(): with a loop running in the calling thread, stop() is handed to
\* that loop and the thread blocks in result(), so the loop runs nothing more
\* and `last` names the call still in progress; otherwise asyncio.run(stop())
AtExit ==
    /\ ~hung
    /\ \E running \in BOOLEAN :
          IF running
          THEN /\ hung' = TRUE
               /\ last' = Call("at_exit", NoArgs,
                               Returns(PyNone, <<>>, NoExchange))
               /\ UNCHANGED << api_session, closes >>
          ELSE /\ StopSession
               /\ last' = Call("at_exit", NoArgs,
                               Returns(PyNone, <<>>, NoExchange))
               /\ UNCHANGED hung
    /\ UNCHANGED << internal_session, device_json_list, created,
                    nSnap, lastSnap, odd >>
    /\ UNCHANGED << coordVars, fetchVars, entityVars, lifeVars >>

-----------------------------------------------------------------------------
(* Device status *)

Take(s, n) == IF Len(s) <= n THEN s ELSE SubSeq(s, 1, n)

\* Variant: the response appended at the back of the list
HandleDeviceJson_Append(list, data) == Take(list \o <<data>>, HistoryCap)

\* handle_device_json
HandleDeviceJson(list, data) == Take(<<data>> \o list, HistoryCap)

\* Variant: the push made without the `if not data: return` before it
Stored_Unchecked(list, data) == HandleDeviceJson(list, data)

\* update_device_data after the fetch: `if not data: return`, else the push
Stored(list, data) ==
    IF ~Truthy(data) THEN list ELSE HandleDeviceJson(list, data)

\* device_data
DeviceData(list) == IF Len(list) > 0 THEN list[1] ELSE PyDict(0)

\* The device-status answer is a JSON object
IsSnapshot(x) == x.exc = "" /\ x.status = 200 /\ x.body.txt \in {"{}", "{..}"}

\* The device-status answer changes the client or the counters, and is not plain
IsOdd(x) ==
    /\ x.exc = ""
    /\ \/ x.status = 204
       \/ x.status = 200 /\ x.body.txt \in {"{}", "[..]"}

UpdateDeviceData(maxSnap) ==
    /\ ~hung
    /\ \E x \in Exchanges(nSnap + 1) :
          LET r == ApiRequest(api_session, "GET", "/api/deviceStatus",
                              Data(<<>>), x)
              sent == r.reqs # <<>>
          IN  /\ sent /\ IsSnapshot(x) => nSnap < maxSnap
              /\ sent /\ IsOdd(x) => odd < MaxOdd
              /\ device_json_list' =
                    IF r.exc = "" THEN Stored(device_json_list, r.ret)
                                  ELSE device_json_list
              /\ nSnap' = IF sent /\ IsSnapshot(x) THEN nSnap + 1 ELSE nSnap
              /\ lastSnap' = IF sent /\ IsSnapshot(x) THEN Json(x.body)
                                                      ELSE lastSnap
              /\ odd' = IF sent /\ IsOdd(x) THEN odd + 1 ELSE odd
              /\ last' = Call("update_device_data", NoArgs,
                              IF r.exc = ""
                              THEN Returns(PyNone, r.reqs, r.resp)
                              ELSE r)
    /\ UNCHANGED << api_session, internal_session, created, closes, hung >>
    /\ UNCHANGED << coordVars, fetchVars, entityVars, lifeVars >>

\* The convenience properties: those read off the snapshot itself and those
\* read off one side's entry of it
TopProjections == {"is_priming", "water_level", "sensor_label", "settings"}
SideProjections ==
    {"current_temp_f", "target_temp_f", "seconds_remaining",
     "is_alarm_vibrating", "is_on"}

\* `self.device_data.get(...)`: the exception a property raises, "" when it
\* returns.  Only a dict has `get`; a snapshot's side entries are objects
\* here, so the second `get` of a side property finds one
ProjectionError(device, name) ==
    IF device.t = "dict" THEN "" ELSE "AttributeError"

-----------------------------------------------------------------------------
(* Control methods (POST requests) *)

Temperatures == {MinTempF - 1, MinTempF, 82, MaxTempF, MaxTempF + 1}
Durations == {Absent, Some(3600)}

\* payload of set_temperature
TemperaturePayload(side, temperature_f, duration) ==
    side :> ( IF duration.some
              THEN [targetTemperatureF |-> temperature_f,
                    secondsRemaining |-> duration.v]
              ELSE [targetTemperatureF |-> temperature_f] )

\* Variant: the upper bound off by one, 111 accepted
TemperatureInRange_OffByOne(temperature_f) ==
    ~(temperature_f < MinTempF \/ temperature_f > MaxTempF + 1)

\* `if temperature_f < 55 or temperature_f > 110`, negated
TemperatureInRange(temperature_f) ==
    ~(temperature_f < MinTempF \/ temperature_f > MaxTempF)

SetTemperatureResult(session, side, temperature_f, duration, x) ==
    IF ~TemperatureInRange(temperature_f)
    THEN Returns(PyFalse, <<>>, NoExchange)
    ELSE Succeeded(ApiRequest(session, "POST", "/api/deviceStatus",
             Data(TemperaturePayload(side, temperature_f, duration)), x))

SetTemperature ==
    /\ ~hung
    /\ \E side \in Sides, temperature_f \in Temperatures,
          duration \in Durations, x \in Exchanges(1) :
          last' = Call("set_temperature",
                       [side |-> side, temperature_f |-> temperature_f,
                        duration |-> duration],
                       SetTemperatureResult(api_session, side, temperature_f,
                                            duration, x))
    /\ UNCHANGED << api_session, internal_session, device_json_list, created,
                    closes, hung, nSnap, lastSnap, odd >>
    /\ UNCHANGED << coordVars, fetchVars, entityVars, lifeVars >>

\* payload of turn_on
TurnOnPayload(side, duration) ==
    side :> [isOn |-> TRUE, secondsRemaining |-> duration]

TurnOn ==
    /\ ~hung
    /\ \E side \in Sides, x \in Exchanges(1) :
          last' = Call("turn_on",
                       [side |-> side, duration |-> DefaultOnDuration],
                       Succeeded(ApiRequest(api_session, "POST",
                           "/api/deviceStatus",
                           Data(TurnOnPayload(side, DefaultOnDuration)), x)))
    /\ UNCHANGED << api_session, internal_session, device_json_list, created,
                    closes, hung, nSnap, lastSnap, odd >>
    /\ UNCHANGED << coordVars, fetchVars, entityVars, lifeVars >>

\* payload of turn_off
TurnOffPayload(side) == side :> [isOn |-> FALSE]

TurnOff ==
    /\ ~hung
    /\ \E side \in Sides, x \in Exchanges(1) :
          last' = Call("turn_off", [side |-> side],
                       Succeeded(ApiRequest(api_session, "POST",
                           "/api/deviceStatus",
                           Data(TurnOffPayload(side)), x)))
    /\ UNCHANGED << api_session, internal_session, device_json_list, created,
                    closes, hung, nSnap, lastSnap, odd >>
    /\ UNCHANGED << coordVars, fetchVars, entityVars, lifeVars >>

\* payload of stop_alarm
StopAlarmPayload(side) == side :> [isAlarmVibrating |-> FALSE]

StopAlarm ==
    /\ ~hung
    /\ \E side \in Sides, x \in Exchanges(1) :
          last' = Call("stop_alarm", [side |-> side],
                       Succeeded(ApiRequest(api_session, "POST",
                           "/api/deviceStatus",
                           Data(StopAlarmPayload(side)), x)))
    /\ UNCHANGED << api_session, internal_session, device_json_list, created,
                    closes, hung, nSnap, lastSnap, odd >>
    /\ UNCHANGED << coordVars, fetchVars, entityVars, lifeVars >>

\* payload of start_priming
PrimingPayload == [isPriming |-> TRUE]

StartPriming ==
    /\ ~hung
    /\ \E x \in Exchanges(1) :
          last' = Call("start_priming", NoArgs,
                       Succeeded(ApiRequest(api_session, "POST",
                           "/api/deviceStatus", Data(PrimingPayload), x)))
    /\ UNCHANGED << api_session, internal_session, device_json_list, created,
                    closes, hung, nSnap, lastSnap, odd >>
    /\ UNCHANGED << coordVars, fetchVars, entityVars, lifeVars >>

Brightnesses == {MinBrightness - 1, MinBrightness, MaxBrightness,
                 MaxBrightness + 1}

\* payload of set_led_brightness
BrightnessPayload(brightness) == [settings |-> [ledBrightness |-> brightness]]

SetLedBrightnessResult(session, brightness, x) ==
    IF brightness < MinBrightness \/ brightness > MaxBrightness
    THEN Returns(PyFalse, <<>>, NoExchange)
    ELSE Succeeded(ApiRequest(session, "POST", "/api/deviceStatus",
                              Data(BrightnessPayload(brightness)), x))

SetLedBrightness ==
    /\ ~hung
    /\ \E brightness \in Brightnesses, x \in Exchanges(1) :
          last' = Call("set_led_brightness", [brightness |-> brightness],
                       SetLedBrightnessResult(api_session, brightness, x))
    /\ UNCHANGED << api_session, internal_session, device_json_list, created,
                    closes, hung, nSnap, lastSnap, odd >>
    /\ UNCHANGED << coordVars, fetchVars, entityVars, lifeVars >>

Intensities == {MinIntensity - 1, MinIntensity, MaxIntensity, MaxIntensity + 1}
Patterns == {"rise", "double", "pulse"}
AlarmDurations == {MinAlarmDuration - 1, MinAlarmDuration, MaxAlarmDuration,
                   MaxAlarmDuration + 1}

\* payload of trigger_alarm
AlarmPayload(side, intensity, pattern, duration) ==
    [side |-> side, vibrationIntensity |-> intensity,
     vibrationPattern |-> pattern, duration |-> duration]

\* Variant: the lower bound off by one, intensity 0 accepted
IntensityInRange_FromZero(intensity) ==
    ~(intensity < MinIntensity - 1 \/ intensity > MaxIntensity)

IntensityInRange(intensity) ==
    ~(intensity < MinIntensity \/ intensity > MaxIntensity)

PatternKnown(pattern) == pattern \in {"rise", "double"}

AlarmDurationInRange(duration) ==
    ~(duration < MinAlarmDuration \/ duration > MaxAlarmDuration)

TriggerAlarmResult(session, side, intensity, pattern, duration, x) ==
    IF ~IntensityInRange(intensity)
    THEN Returns(PyFalse, <<>>, NoExchange)
    ELSE IF ~PatternKnown(pattern)
    THEN Returns(PyFalse, <<>>, NoExchange)
    ELSE IF ~AlarmDurationInRange(duration)
    THEN Returns(PyFalse, <<>>, NoExchange)
    ELSE Succeeded(ApiRequest(session, "POST", "/api/alarm",
             Data(AlarmPayload(side, intensity, pattern, duration)), x))

TriggerAlarm ==
    /\ ~hung
    /\ \E side \in Sides, intensity \in Intensities, pattern \in Patterns,
          duration \in AlarmDurations, x \in Exchanges(1) :
          last' = Call("trigger_alarm",
                       [side |-> side, intensity |-> intensity,
                        pattern |-> pattern, duration |-> duration],
                       TriggerAlarmResult(api_session, side, intensity,
                                          pattern, duration, x))
    /\ UNCHANGED << api_session, internal_session, device_json_list, created,
                    closes, hung, nSnap, lastSnap, odd >>
    /\ UNCHANGED << coordVars, fetchVars, entityVars, lifeVars >>

-----------------------------------------------------------------------------
(* Reads that keep no state *)

GetSchedules ==
    /\ ~hung
    /\ \E x \in Exchanges(1) :
          last' = Call("get_schedules", NoArgs,
                       ApiRequest(api_session, "GET", "/api/schedules",
                                  NoData, x))
    /\ UNCHANGED << api_session, internal_session, device_json_list, created,
                    closes, hung, nSnap, lastSnap, odd >>
    /\ UNCHANGED << coordVars, fetchVars, entityVars, lifeVars >>

GetPresence ==
    /\ ~hung
    /\ \E x \in Exchanges(1) :
          last' = Call("get_presence", NoArgs,
                       ApiRequest(api_session, "GET", "/api/presence",
                                  NoData, x))
    /\ UNCHANGED << api_session, internal_session, device_json_list, created,
                    closes, hung, nSnap, lastSnap, odd >>
    /\ UNCHANGED << coordVars, fetchVars, entityVars, lifeVars >>

-----------------------------------------------------------------------------
(* The status coordinator (EightSleepDataUpdateCoordinator) *)

\* Answers of the device to the status poll's GET /api/deviceStatus: a
\* request error, a refusal, an empty object, a snapshot, an array, and a
\* body that does not parse
DeviceAnswers(n) ==
    { Exchange("TimeoutError", 0, NoBody),
      Exchange("", 500, NoBody),
      Exchange("", 200, WireBody("{}", 0)),
      Exchange("", 200, WireBody("{..}", n)),
      Exchange("", 200, WireBody("[..]", 1)),
      Exchange("", 200, WireBody("not json", 0)) }

\* Answers to GET /api/presence; the stamp of a presence object names the
\* sides it reports as occupied
PresenceAnswers ==
    { Exchange("ConnectionRefusedError", 0, NoBody),
      Exchange("", 500, NoBody),
      Exchange("", 204, NoBody),
      Exchange("", 200, WireBody("{}", 0)),
      Exchange("", 200, WireBody("not json", 0)) }
    \cup { Exchange("", 200, WireBody("{..}", p)) : p \in 1..MaxPresence }

\* `{"left": {"present": False}, "right": {"present": False}}`
DefaultPresence == [t |-> "dict", v |-> -1]

\* The sides whose "present" is true in a presence object
PresentSides(presence) ==
    CASE presence.v = 1 -> {"left"}
      [] presence.v = 2 -> {"right"}
      [] presence.v = 3 -> {"left", "right"}
      [] OTHER -> {}

\* Variant: the presence result stored as it came, None included
OrDefault_Raw(presence) == presence

\* `presence or {...}`
OrDefault(presence) ==
    IF Truthy(presence) THEN presence ELSE DefaultPresence

\* `{**self.client.device_data, "_presence": ...}`
Composite(device, presence) ==
    [t |-> "composite", device |-> device, presence |-> OrDefault(presence)]

\* `**self.client.device_data` on a value that is not a mapping
MergeError(device) == IF device.t = "dict" THEN "" ELSE "TypeError"

PollOutcome(ret, exc, reqs, resps, list) ==
    [ret |-> ret, exc |-> exc, reqs |-> reqs, resps |-> resps, list |-> list]

\* Variant: the error logged and None returned in its place
PollExcept_Swallowed(r) == PollOutcome(PyNone, "", r.reqs, r.resps, r.list)

\* `except Exception as err: ...; raise err`
PollExcept(r) == r

\* The `try` body of _async_update_data: update_device_data(), then
\* get_presence(), then the merge; list is the history it leaves
StatusTry(session, list, x1, x2) ==
    LET r1 == ApiRequest(session, "GET", "/api/deviceStatus", Data(<<>>), x1)
        r2 == ApiRequest(session, "GET", "/api/presence", NoData, x2)
        list1 == Stored(list, r1.ret)
    IN  IF r1.exc # ""
        THEN PollOutcome(PyNone, r1.exc, r1.reqs,
                         IF r1.reqs = <<>> THEN <<>> ELSE <<x1>>, list)
        ELSE IF r2.exc # ""
        THEN PollOutcome(PyNone, r2.exc, r1.reqs \o r2.reqs, <<x1, x2>>, list1)
        ELSE IF MergeError(DeviceData(list1)) # ""
        THEN PollOutcome(PyNone, MergeError(DeviceData(list1)),
                         r1.reqs \o r2.reqs, <<x1, x2>>, list1)
        ELSE PollOutcome(Composite(DeviceData(list1), r2.ret), "",
                         r1.reqs \o r2.reqs, <<x1, x2>>, list1)

\* EightSleepDataUpdateCoordinator._async_update_data
StatusUpdateData(session, list, x1, x2) ==
    LET r == StatusTry(session, list, x1, x2)
    IN  IF r.exc # "" THEN PollExcept(r) ELSE r

\* coordinator.data after a refresh: the value returned, or the data as it was
Refreshed(data, r) == IF r.exc = "" THEN r.ret ELSE data

\* One refresh of the status coordinator
StatusPoll ==
    /\ ~hung
    /\ \E x1 \in DeviceAnswers(nSnap + 1), x2 \in PresenceAnswers :
          LET r == StatusUpdateData(api_session, device_json_list, x1, x2)
              sent == r.reqs # <<>>
          IN  /\ sent /\ IsSnapshot(x1) => nSnap < MaxPolls
              /\ sent /\ IsOdd(x1) => odd < MaxOdd
              /\ device_json_list' = r.list
              /\ nSnap' = IF sent /\ IsSnapshot(x1) THEN nSnap + 1 ELSE nSnap
              /\ lastSnap' = IF sent /\ IsSnapshot(x1) THEN Json(x1.body)
                                                       ELSE lastSnap
              /\ odd' = IF sent /\ IsOdd(x1) THEN odd + 1 ELSE odd
              /\ status_data' = Refreshed(status_data, r)
              /\ poll' = PollRecord("status", r, status_data)
              /\ last' = IF Len(r.reqs) = 2
                         THEN Call("get_presence", NoArgs,
                                   ApiRequest(api_session, "GET",
                                              "/api/presence", NoData, x2))
                         ELSE Call("update_device_data", NoArgs,
                                   ApiRequest(api_session, "GET",
                                       "/api/deviceStatus", Data(<<>>), x1))
    /\ UNCHANGED << api_session, internal_session, created, closes, hung,
                    health_data, fetchVars, entityVars, lifeVars >>

\* EightSleepPresenceSensor.is_on: `presence_data.get` on a value that is
\* not a mapping
IsOnError(data) ==
    IF data # PyNone /\ data.presence.t # "dict" THEN "AttributeError" ELSE ""

\* EightSleepPresenceSensor.is_on, where it returns
IsOn(data, side) ==
    /\ data # PyNone
    /\ data.presence.t = "dict"
    /\ side \in PresentSides(data.presence)

-----------------------------------------------------------------------------
(* Health metrics reads *)

\* A string, by its stamp (0 for the empty string), and a key a JSON object
\* does not have
PyStr(n) == [t |-> "str", v |-> n]
Missing == [t |-> "missing", v |-> 0]

\* record.get(key)
Get(record, key) == IF record[key] = Missing THEN PyNone ELSE record[key]

\* One query parameter, f"{key}={value}"
Param(key, value) == [key |-> key, value |-> value]

\* Variant: every filter sent, set or not
QueryParams_Unfiltered(side, start_time, end_time) ==
    << Param("side", side), Param("startTime", start_time),
       Param("endTime", end_time) >>

\* `params`: each filter appended when it is truthy; side is a string, ""
\* standing for None
QueryParams(side, start_time, end_time) ==
    (IF side # "" THEN << Param("side", side) >> ELSE <<>>)
    \o (IF Truthy(start_time) THEN << Param("startTime", start_time) >>
                              ELSE <<>>)
    \o (IF Truthy(end_time) THEN << Param("endTime", end_time) >> ELSE <<>>)

\* `"?..." if params else ""`: whether the slug carries a "?"
QueryMark(params) == params # <<>>

\* f"{path}{query}": the path, then a "?" and the parameters joined by "&",
\* in the order of the list, or nothing
Slug(path, params) ==
    [base |-> path, mark |-> QueryMark(params), query |-> params]

GetVitals(session, side, start_time, end_time, x) ==
    ApiRequest(session, "GET",
               Slug("/api/metrics/vitals",
                    QueryParams(side, start_time, end_time)),
               NoData, x)

GetVitalsSummary(session, side, start_time, end_time, x) ==
    ApiRequest(session, "GET",
               Slug("/api/metrics/vitals/summary",
                    QueryParams(side, start_time, end_time)),
               NoData, x)

GetSleepRecords(session, side, start_time, end_time, x) ==
    ApiRequest(session, "GET",
               Slug("/api/metrics/sleep",
                    QueryParams(side, start_time, end_time)),
               NoData, x)

GetMovement(session, side, start_time, end_time, x) ==
    ApiRequest(session, "GET",
               Slug("/api/metrics/movement",
                    QueryParams(side, start_time, end_time)),
               NoData, x)

\* Filters a caller can pass: no side or a side; no time, the empty string
\* or a timestamp
SideFilters == {"", "left", "right"}
TimeFilters == {PyNone, PyStr(0), PyStr(1)}

\* Answers of the device to a metrics read
MetricsAnswers ==
    { Exchange("TimeoutError", 0, NoBody),
      Exchange("", 200, WireBody("[..]", 1)),
      Exchange("", 200, WireBody("not json", 0)) }

MetricsArgs(side, start_time, end_time) ==
    [side |-> side, start_time |-> start_time, end_time |-> end_time]

\* One call of one of the four metrics reads
GetMetrics ==
    /\ ~hung
    /\ \E side \in SideFilters, start_time \in TimeFilters,
          end_time \in TimeFilters, x \in MetricsAnswers :
          \/ last' = Call("get_vitals",
                          MetricsArgs(side, start_time, end_time),
                          GetVitals(api_session, side, start_time,
                                    end_time, x))
          \/ last' = Call("get_vitals_summary",
                          MetricsArgs(side, start_time, end_time),
                          GetVitalsSummary(api_session, side, start_time,
                                           end_time, x))
          \/ last' = Call("get_sleep_records",
                          MetricsArgs(side, start_time, end_time),
                          GetSleepRecords(api_session, side, start_time,
                                          end_time, x))
          \/ last' = Call("get_movement",
                          MetricsArgs(side, start_time, end_time),
                          GetMovement(api_session, side, start_time,
                                      end_time, x))
    /\ UNCHANGED << api_session, internal_session, device_json_list, created,
                    closes, hung, nSnap, lastSnap, odd, coordVars,
                    fetchVars, entityVars, lifeVars >>

-----------------------------------------------------------------------------
(* The health coordinator (EightSleepHealthCoordinator) *)

SleepRecord(side, entered, left) ==
    [t |-> "dict", v |-> 1, side |-> side,
     entered_bed_at |-> entered, left_bed_at |-> left]

\* Records the device reports: a whole night and one without either time on
\* the left, one with a null start and one without an end on the right
SleepRecords ==
    { SleepRecord("left", PyStr(1), PyStr(2)),
      SleepRecord("left", PyNone, Missing),
      SleepRecord("right", PyNone, PyStr(4)),
      SleepRecord("right", PyStr(3), Missing) }

SleepLists ==
    { <<>> } \cup { << a >> : a \in SleepRecords }
    \cup { l \in SleepRecords \X SleepRecords : l[1] # l[2] }

\* A JSON array with its items
SleepBody(records) ==
    [txt |-> "[..]", n |-> Len(records), items |-> records]

\* Answers to GET /api/metrics/sleep
SleepAnswers ==
    { Exchange("ConnectionRefusedError", 0, NoBody),
      Exchange("", 500, NoBody),
      Exchange("", 200, WireBody("{..}", 1)),
      Exchange("", 200, WireBody("not json", 0)) }
    \cup { Exchange("", 200, SleepBody(l)) : l \in SleepLists }

\* Answers to GET /api/metrics/vitals/summary
SummaryAnswers(n) ==
    { Exchange("", 500, NoBody),
      Exchange("", 200, WireBody("{..}", n)),
      Exchange("", 200, WireBody("not json", 0)) }

\* `... or []`
OrEmptyList(value) == IF Truthy(value) THEN value ELSE PyList(0)

\* `for record in sleep_records: record.get("side")` on a value that is not
\* a list of objects: the keys of an object are strings
IterError(value) ==
    CASE value.t = "dict" -> "AttributeError"
      [] value.t = "bool" -> "TypeError"
      [] OTHER -> ""

\* Variant: the loop without its `is None` tests, keeping the last record
RECURSIVE SelectSleep_Last(_, _, _)
SelectSleep_Last(records, left_sleep, right_sleep) ==
    IF records = <<>>
    THEN [left |-> left_sleep, right |-> right_sleep]
    ELSE LET record == Head(records)
         IN  SelectSleep_Last(Tail(records),
                 IF record.side = "left" THEN record ELSE left_sleep,
                 IF record.side = "right" THEN record ELSE right_sleep)

\* The `for record in sleep_records` loop
RECURSIVE SelectSleep(_, _, _)
SelectSleep(records, left_sleep, right_sleep) ==
    IF records = <<>>
    THEN [left |-> left_sleep, right |-> right_sleep]
    ELSE LET record == Head(records)
             isLeft == record.side = "left" /\ left_sleep = PyNone
             isRight == ~isLeft /\ record.side = "right" /\ right_sleep = PyNone
             l == IF isLeft THEN record ELSE left_sleep
             r == IF isRight THEN record ELSE right_sleep
         IN  IF Truthy(l) /\ Truthy(r)
             THEN [left |-> l, right |-> r]
             ELSE SelectSleep(Tail(records), l, r)

\* Variant: the last record of each side selected
SelectFirst_Last(records) == SelectSleep_Last(records, PyNone, PyNone)

\* `left_sleep = None`, `right_sleep = None`, then the loop
SelectFirst(records) == SelectSleep(records, PyNone, PyNone)

\* The records of a parsed sleep answer
Items(value, x) == IF value.t = "list" /\ value.v > 0 THEN x.body.items ELSE <<>>

HealthResult(left_sleep, left_summary, right_sleep, right_summary) ==
    [t |-> "health",
     left |-> [sleep |-> left_sleep, vitals_summary |-> left_summary],
     right |-> [sleep |-> right_sleep, vitals_summary |-> right_summary]]

HealthOutcome(ret, exc, reqs, resps, call) ==
    [ret |-> ret, exc |-> exc, reqs |-> reqs, resps |-> resps, call |-> call]

\* `if left_sleep:` / `if right_sleep:` not taken
NoFetch == Returns(PyNone, <<>>, NoExchange)

\* The `try` body of _async_update_data; call is the last client call made
HealthTry(session, x0, xl, xr) ==
    LET r0 == GetSleepRecords(session, "", PyNone, PyNone, x0)
        c0 == Call("get_sleep_records", NoArgs, r0)
        e0 == IF r0.reqs = <<>> THEN <<>> ELSE << x0 >>
        sleep_records == OrEmptyList(r0.ret)
        sel == SelectFirst(Items(sleep_records, x0))
        rl == IF Truthy(sel.left)
              THEN GetVitalsSummary(session, "left",
                                    Get(sel.left, "entered_bed_at"),
                                    Get(sel.left, "left_bed_at"), xl)
              ELSE NoFetch
        cl == IF Truthy(sel.left)
              THEN Call("get_vitals_summary", [side |-> "left"], rl) ELSE c0
        el == IF Truthy(sel.left) THEN << xl >> ELSE <<>>
        rr == IF Truthy(sel.right)
              THEN GetVitalsSummary(session, "right",
                                    Get(sel.right, "entered_bed_at"),
                                    Get(sel.right, "left_bed_at"), xr)
              ELSE NoFetch
        cr == IF Truthy(sel.right)
              THEN Call("get_vitals_summary", [side |-> "right"], rr) ELSE cl
        er == IF Truthy(sel.right) THEN << xr >> ELSE <<>>
    IN  IF r0.exc # ""
        THEN HealthOutcome(PyNone, r0.exc, r0.reqs, e0, c0)
        ELSE IF IterError(sleep_records) # ""
        THEN HealthOutcome(PyNone, IterError(sleep_records), r0.reqs, e0, c0)
        ELSE IF rl.exc # ""
        THEN HealthOutcome(PyNone, rl.exc, r0.reqs \o rl.reqs, e0 \o el, cl)
        ELSE IF rr.exc # ""
        THEN HealthOutcome(PyNone, rr.exc, r0.reqs \o rl.reqs \o rr.reqs,
                           e0 \o el \o er, cr)
        ELSE HealthOutcome(HealthResult(sel.left, rl.ret, sel.right, rr.ret),
                           "", r0.reqs \o rl.reqs \o rr.reqs,
                           e0 \o el \o er, cr)

\* EightSleepHealthCoordinator._async_update_data
HealthUpdateData(session, x0, xl, xr) ==
    LET r == HealthTry(session, x0, xl, xr)
    IN  IF r.exc # "" THEN PollExcept(r) ELSE r

\* The answers a side's summary fetch can meet: none when the poll does not
\* make it
SummaryChoices(session, x0, side, n) ==
    LET r == HealthTry(session, x0, Exchange("", 500, NoBody),
                       Exchange("", 500, NoBody))
    IN  IF r.exc = "" /\ Truthy(r.ret[side].sleep)
        THEN SummaryAnswers(n)
        ELSE { NoExchange }

\* One refresh of the health coordinator
HealthPoll ==
    /\ ~hung
    /\ \E x0 \in SleepAnswers :
       \E xl \in SummaryChoices(api_session, x0, "left", 1),
          xr \in SummaryChoices(api_session, x0, "right", 2) :
          LET r == HealthUpdateData(api_session, x0, xl, xr)
          IN  /\ health_data' = Refreshed(health_data, r)
              /\ poll' = PollRecord("health", r, health_data)
              /\ last' = r.call
    /\ UNCHANGED << api_session, internal_session, device_json_list, created,
                    closes, hung, nSnap, lastSnap, odd, status_data,
                    fetchVars, entityVars, lifeVars >>

\* EightSleepHealthBaseSensor._get_sleep_record
GetSleepRecord(data, side) ==
    IF data = PyNone THEN PyNone ELSE data[side].sleep

\* EightSleepHealthBaseSensor._get_vitals_summary
GetVitalsSummaryOf(data, side) ==
    IF data = PyNone THEN PyNone ELSE data[side].vitals_summary

-----------------------------------------------------------------------------
(* update_device_data, suspended at `await self.api_request(...)` *)

\* A call suspended in `async with self._api_session.request(**kwargs)`:
\* the session is the one the client held when the request was made
Suspended(id, op, side, session) ==
    [id |-> id, op |-> op, side |-> side, session |-> session]

\* update_device_data up to its await: the assertion, then the request sent
BeginUpdateDeviceData ==
    /\ ~hung
    /\ LET r == ApiRequest(api_session, "GET", "/api/deviceStatus",
                           Data(<<>>), NoExchange)
       IN  IF r.reqs = <<>>
           THEN /\ last' = Call("update_device_data", NoArgs, r)
                /\ UNCHANGED << pending, begun >>
           ELSE /\ begun < MaxFetches
                /\ pending' = pending \cup
                      { Suspended(begun + 1, "update_device_data", "",
                                  api_session) }
                /\ begun' = begun + 1
                /\ UNCHANGED last
    /\ UNCHANGED << api_session, internal_session, device_json_list, created,
                    closes, hung, nSnap, lastSnap, odd, coordVars, finished,
                    entityVars, lifeVars >>

\* update_device_data from the moment its exchange completes: the answer
\* mapped by api_request, `if not data: return`, then the push
FinishUpdateDeviceData ==
    /\ ~hung
    /\ \E p \in { q \in pending : q.op = "update_device_data" },
          x \in Exchanges(nSnap + 1) :
          LET r == ApiRequest(p.session, "GET", "/api/deviceStatus",
                              Data(<<>>), x)
          IN  /\ pending' = pending \ {p}
              /\ device_json_list' =
                    IF r.exc = "" THEN Stored(device_json_list, r.ret)
                                  ELSE device_json_list
              /\ finished' =
                    IF r.exc = "" /\ Truthy(r.ret)
                    THEN Append(finished, [id |-> p.id, data |-> r.ret])
                    ELSE finished
              /\ nSnap' = IF IsSnapshot(x) THEN nSnap + 1 ELSE nSnap
              /\ lastSnap' = IF IsSnapshot(x) THEN Json(x.body) ELSE lastSnap
              /\ odd' = IF IsOdd(x) THEN odd + 1 ELSE odd
              /\ last' = Call("update_device_data", NoArgs,
                              IF r.exc = ""
                              THEN Returns(PyNone, r.reqs, r.resp)
                              ELSE r)
    /\ UNCHANGED << api_session, internal_session, created, closes, hung,
                    coordVars, begun, entityVars, lifeVars >>

-----------------------------------------------------------------------------
(* The entities' handlers of user actions (switch.py, button.py,           *)
(* climate.py, number.py)                                                   *)

SYNC_MODE_KEY == "sync_mode"
INSTANT_ALARM_SYNC_KEY == "instant_alarm_sync"

\* Answers of the device to a control command
CommandAnswers ==
    { Exchange("TimeoutError", 0, NoBody),
      Exchange("", 204, NoBody),
      Exchange("", 200, WireBody("not json", 0)) }

\* One call of a control method of the client, as the handlers make it
ControlCall(op, session, side, arg, x) ==
    CASE op = "turn_on" ->
            Call("turn_on", [side |-> side, duration |-> DefaultOnDuration],
                 Succeeded(ApiRequest(session, "POST", "/api/deviceStatus",
                     Data(TurnOnPayload(side, DefaultOnDuration)), x)))
      [] op = "turn_off" ->
            Call("turn_off", [side |-> side],
                 Succeeded(ApiRequest(session, "POST", "/api/deviceStatus",
                     Data(TurnOffPayload(side)), x)))
      [] op = "stop_alarm" ->
            Call("stop_alarm", [side |-> side],
                 Succeeded(ApiRequest(session, "POST", "/api/deviceStatus",
                     Data(StopAlarmPayload(side)), x)))
      [] op = "set_temperature" ->
            Call("set_temperature",
                 [side |-> side, temperature_f |-> arg, duration |-> Absent],
                 SetTemperatureResult(session, side, arg, Absent, x))
      [] op = "trigger_alarm" ->
            Call("trigger_alarm",
                 [side |-> side, intensity |-> arg.intensity,
                  pattern |-> arg.pattern, duration |-> arg.duration],
                 TriggerAlarmResult(session, side, arg.intensity, arg.pattern,
                                    arg.duration, x))
      [] op = "start_priming" ->
            Call("start_priming", NoArgs,
                 Succeeded(ApiRequest(session, "POST", "/api/deviceStatus",
                                      Data(PrimingPayload), x)))

\* The awaited calls of a handler that are made: a call that raises ends
\* the handler, so the calls after it are not made
Performed(calls) ==
    IF \E i \in 1..Len(calls) : calls[i].exc # ""
    THEN SubSeq(calls, 1,
                CHOOSE i \in 1..Len(calls) :
                    /\ calls[i].exc # ""
                    /\ \A j \in 1..(i - 1) : calls[j].exc = "")
    ELSE calls

\* The exception a handler ends with: that of its raising call, or none
Propagated(calls) ==
    IF calls # <<>> THEN calls[Len(calls)].exc ELSE ""

\* A handler that is a run of awaited calls and then
\* `await self.coordinator.async_request_refresh()`
Handled(handler, side, arg, calls) ==
    LET done == Performed(calls)
    IN  /\ action' = ActionRecord(handler, side, arg, done,
                                  Propagated(done) = "", Propagated(done))
        /\ last' = IF done # <<>> THEN done[Len(done)] ELSE last

\* `if sync_states.get(SYNC_MODE_KEY, False)`: both sides, left first, or
\* the entity's own side
FanOutSides(sync, side) == IF sync THEN << "left", "right" >> ELSE << side >>

\* The answers left to draw for a second call
SecondAnswers(sync) == IF sync THEN CommandAnswers ELSE { NoExchange }

\* The body shared by the power switch, the stop-alarm button and the two
\* temperature entities: the flag read, the calls, the refresh
FanOut(handler, op, side, value, x1, x2) ==
    LET sync == sync_states[SYNC_MODE_KEY]
        sides == FanOutSides(sync, side)
        xs == << x1, x2 >>
    IN  Handled(handler, side, [value |-> value, sync |-> sync],
                [i \in 1..Len(sides) |->
                    ControlCall(op, api_session, sides[i], value, xs[i])])

HandlerFrame ==
    UNCHANGED << api_session, internal_session, device_json_list, created,
                 closes, hung, nSnap, lastSnap, odd, coordVars, fetchVars,
                 sync_states, cached_schedule, pressing, lifeVars >>

\* EightSleepPowerSwitch.async_turn_on
SwitchTurnOn ==
    /\ ~hung
    /\ \E side \in Sides, x1 \in CommandAnswers,
          x2 \in SecondAnswers(sync_states[SYNC_MODE_KEY]) :
          FanOut("switch.async_turn_on", "turn_on", side, 0, x1, x2)
    /\ HandlerFrame

\* EightSleepPowerSwitch.async_turn_off
SwitchTurnOff ==
    /\ ~hung
    /\ \E side \in Sides, x1 \in CommandAnswers,
          x2 \in SecondAnswers(sync_states[SYNC_MODE_KEY]) :
          FanOut("switch.async_turn_off", "turn_off", side, 0, x1, x2)
    /\ HandlerFrame

\* EightSleepStopAlarmButton.async_press
StopAlarmPress ==
    /\ ~hung
    /\ \E side \in Sides, x1 \in CommandAnswers,
          x2 \in SecondAnswers(sync_states[SYNC_MODE_KEY]) :
          FanOut("button.stop_alarm", "stop_alarm", side, 0, x1, x2)
    /\ HandlerFrame

\* Temperatures a user sets: one the client refuses, one it sends
SetPoints == {MinTempF - 1, 82}

\* EightSleepClimate.async_set_temperature with a temperature given
ClimateSetTemperature ==
    /\ ~hung
    /\ \E side \in Sides, temp \in SetPoints, x1 \in CommandAnswers,
          x2 \in SecondAnswers(sync_states[SYNC_MODE_KEY]) :
          FanOut("climate.async_set_temperature", "set_temperature", side,
                 temp, x1, x2)
    /\ HandlerFrame

\* EightSleepTemperatureNumber.async_set_native_value
NumberSetValue ==
    /\ ~hung
    /\ \E side \in Sides, temp \in SetPoints, x1 \in CommandAnswers,
          x2 \in SecondAnswers(sync_states[SYNC_MODE_KEY]) :
          FanOut("number.async_set_native_value", "set_temperature", side,
                 temp, x1, x2)
    /\ HandlerFrame

\* EightSleepClimate.async_set_hvac_mode for OFF and HEAT_COOL: the client
\* has no turn_off_side and no turn_on_side, so the attribute lookup raises
\* before any call and before the refresh
ClimateSetHvacMode ==
    /\ ~hung
    /\ \E side \in Sides, hvac_mode \in {"off", "heat_cool"} :
          action' = ActionRecord("climate.async_set_hvac_mode", side,
                                 [value |-> hvac_mode], <<>>, FALSE,
                                 "AttributeError")
    /\ UNCHANGED last
    /\ HandlerFrame

\* EightSleepPrimeButton.async_press
PrimePress ==
    /\ ~hung
    /\ \E x \in CommandAnswers :
          Handled("button.prime", "", NoArg,
                  << ControlCall("start_priming", api_session, "", 0, x) >>)
    /\ HandlerFrame

\* EightSleepSyncModeSwitch.async_turn_on and async_turn_off, of either
\* sync switch
SyncSwitchTurn ==
    /\ ~hung
    /\ \E key \in {SYNC_MODE_KEY, INSTANT_ALARM_SYNC_KEY}, on \in BOOLEAN :
          sync_states' = [sync_states EXCEPT ![key] = on]
    /\ UNCHANGED << api_session, internal_session, device_json_list, created,
                    closes, hung, nSnap, lastSnap, odd, last, coordVars,
                    fetchVars, cached_schedule, action, pressing, lifeVars >>

\* instant_alarm_settings as the number and select entities left them: the
\* defaults, or other values
AlarmSettings ==
    { [intensity |-> 80, pattern |-> "rise", duration |-> 60],
      [intensity |-> 50, pattern |-> "double", duration |-> 30] }

OtherSide(side) == IF side = "left" THEN "right" ELSE "left"

\* EightSleepTriggerAlarmButton.async_press up to its first await: the
\* settings read, the first call made.  On a client without a session the
\* call raises at once and the handler is over
BeginTriggerAlarmPress ==
    /\ ~hung
    /\ \E side \in Sides, settings \in AlarmSettings :
          IF api_session = NoSession
          THEN /\ Handled("button.trigger_alarm", side,
                          [value |-> settings,
                           sync |-> sync_states[INSTANT_ALARM_SYNC_KEY]],
                          << ControlCall("trigger_alarm", api_session, side,
                                         settings, NoExchange) >>)
               /\ UNCHANGED pressing
          ELSE /\ Cardinality(pressing) < MaxPresses
               /\ pressing' = pressing \cup
                     { [side |-> side, settings |-> settings,
                        session |-> api_session,
                        sync |-> sync_states[INSTANT_ALARM_SYNC_KEY]] }
               /\ UNCHANGED << action, last >>
    /\ UNCHANGED << api_session, internal_session, device_json_list, created,
                    closes, hung, nSnap, lastSnap, odd, coordVars, fetchVars,
                    sync_states, cached_schedule, lifeVars >>

\* The same handler from the moment its first call comes back: the sync
\* flag read now, the second call for the other side, the refresh
FinishTriggerAlarmPress ==
    /\ ~hung
    /\ \E p \in pressing, x1 \in CommandAnswers,
          x2 \in SecondAnswers(sync_states[INSTANT_ALARM_SYNC_KEY]) :
          LET first == ControlCall("trigger_alarm", p.session, p.side,
                                   p.settings, x1)
              second == ControlCall("trigger_alarm", api_session,
                                    OtherSide(p.side), p.settings, x2)
          IN  /\ pressing' = pressing \ {p}
              /\ Handled("button.trigger_alarm", p.side,
                         [value |-> p.settings, sync |-> p.sync],
                         IF sync_states[INSTANT_ALARM_SYNC_KEY]
                         THEN << first, second >>
                         ELSE << first >>)
    /\ UNCHANGED << api_session, internal_session, device_json_list, created,
                    closes, hung, nSnap, lastSnap, odd, coordVars, fetchVars,
                    sync_states, cached_schedule, lifeVars >>

-----------------------------------------------------------------------------
(* The alarm-schedule text entity (EightSleepAlarmScheduleText) *)

DAYS_OF_WEEK ==
    {"monday", "tuesday", "wednesday", "thursday", "friday", "saturday",
     "sunday"}

\* A schedule: a dict keyed by day, each day's settings standing for
\* themselves
Schedule(days) == [t |-> "dict", v |-> Cardinality(days), days |-> days]

\* Texts a user can submit: not JSON, a JSON array, or a JSON object with
\* these keys
DaySets ==
    { {}, {"monday"}, {"monday", "sunday"}, {"funday"},
      {"monday", "funday"} }

ScheduleTexts ==
    { [txt |-> "not json", days |-> {}], [txt |-> "[..]", days |-> {}] }
    \cup { [txt |-> "{..}", days |-> d] : d \in DaySets }

\* json.loads(value): the exception it raises, and the value it returns
LoadsError(value) ==
    IF value.txt = "not json" THEN "JSONDecodeError" ELSE ""

Loads(value) ==
    IF value.txt = "{..}" THEN Schedule(value.days) ELSE PyList(1)

\* Variant: the keys of the schedule not checked
DaysValid_Unchecked(schedule_data) == TRUE

\* `for day in schedule_data.keys(): if day not in DAYS_OF_WEEK: return`
DaysValid(schedule_data) == schedule_data.days \subseteq DAYS_OF_WEEK

\* payload of update_alarm_schedule
AlarmSchedulePayload(side, schedule_data) ==
    side :> [day \in schedule_data.days |-> [alarm |-> day]]

UpdateAlarmSchedule(session, side, schedule_data, x) ==
    Succeeded(ApiRequest(session, "POST", "/api/schedules",
                         Data(AlarmSchedulePayload(side, schedule_data)), x))

\* Answers of the device to POST /api/schedules and GET /api/schedules
ScheduleAnswers ==
    { Exchange("TimeoutError", 0, NoBody),
      Exchange("", 204, NoBody),
      Exchange("", 200, WireBody("{..}", 1)),
      Exchange("", 200, WireBody("false", 0)),
      Exchange("", 200, WireBody("not json", 0)) }

\* The calls async_set_value makes: none when the text is rejected
SetValueCalls(session, side, value, x) ==
    IF LoadsError(value) # "" THEN <<>>
    ELSE IF Loads(value).t # "dict" THEN <<>>
    ELSE IF ~DaysValid(Loads(value)) THEN <<>>
    ELSE << Call("update_alarm_schedule",
                 [side |-> side, schedule_data |-> Loads(value)],
                 UpdateAlarmSchedule(session, side, Loads(value), x)) >>

\* async_set_value of the text entity of one side.  Every exception is
\* caught and logged; `if success` guards the cache; the handler asks for
\* no refresh
TextSetValue ==
    /\ ~hung
    /\ \E side \in Sides, value \in ScheduleTexts, x \in ScheduleAnswers :
          LET calls == SetValueCalls(api_session, side, value, x)
              success == /\ calls # <<>>
                         /\ calls[1].exc = ""
                         /\ Truthy(calls[1].ret)
          IN  /\ cached_schedule' =
                    IF success
                    THEN [cached_schedule EXCEPT ![side] = Loads(value)]
                    ELSE cached_schedule
              /\ action' = ActionRecord("text.async_set_value", side, value,
                                        calls, FALSE, "")
              /\ last' = IF calls # <<>> THEN calls[1] ELSE last
    /\ UNCHANGED << api_session, internal_session, device_json_list, created,
                    closes, hung, nSnap, lastSnap, odd, coordVars, fetchVars,
                    sync_states, pressing, lifeVars >>

\* The schedule the device holds for a side, as _fetch_schedule extracts it
DeviceSchedule == Schedule({"tuesday"})

\* _fetch_schedule of the text entity of one side (async_update and
\* async_added_to_hass): a truthy answer that is a dict replaces the cache;
\* `self._side in schedules` raises TypeError on True, which is caught
TextFetchSchedule ==
    /\ ~hung
    /\ \E side \in Sides,
          x \in { Exchange("", 500, NoBody), Exchange("", 204, NoBody),
                  Exchange("", 200, WireBody("{..}", 1)) } :
          LET r == ApiRequest(api_session, "GET", "/api/schedules", NoData, x)
              c == Call("get_schedules", NoArgs, r)
          IN  /\ cached_schedule' =
                    IF r.exc = "" /\ r.ret.t = "dict" /\ Truthy(r.ret)
                    THEN [cached_schedule EXCEPT ![side] = DeviceSchedule]
                    ELSE cached_schedule
              /\ action' = ActionRecord("text._fetch_schedule", side, NoArg,
                                        << c >>, FALSE, "")
              /\ last' = c
    /\ UNCHANGED << api_session, internal_session, device_json_list, created,
                    closes, hung, nSnap, lastSnap, odd, coordVars, fetchVars,
                    sync_states, pressing, lifeVars >>

-----------------------------------------------------------------------------
(* Calls of other tasks, suspended at their request, and stop() suspended   *)
(* at `await self._api_session.close()`                                     *)

\* turn_on, called by the power switch, up to its await
BeginTurnOn ==
    /\ ~hung
    /\ \E side \in Sides :
          LET c == ControlCall("turn_on", api_session, side, 0, NoExchange)
          IN  IF c.reqs = <<>>
              THEN /\ last' = c
                   /\ UNCHANGED << pending, begun >>
              ELSE /\ begun < MaxFetches
                   /\ pending' = pending \cup
                         { Suspended(begun + 1, "turn_on", side,
                                     api_session) }
                   /\ begun' = begun + 1
                   /\ UNCHANGED last
    /\ UNCHANGED << api_session, internal_session, device_json_list, created,
                    closes, hung, nSnap, lastSnap, odd, coordVars, finished,
                    entityVars, lifeVars >>

\* turn_on from the moment its exchange completes
FinishTurnOn ==
    /\ ~hung
    /\ \E p \in { q \in pending : q.op = "turn_on" }, x \in CommandAnswers :
          /\ pending' = pending \ {p}
          /\ last' = ControlCall("turn_on", p.session, p.side, 0, x)
    /\ UNCHANGED << api_session, internal_session, device_json_list, created,
                    closes, hung, nSnap, lastSnap, odd, coordVars, begun,
                    finished, entityVars, lifeVars >>

\* get_sleep_records(), called by the health poll, up to its await
BeginGetSleepRecords ==
    /\ ~hung
    /\ LET r == GetSleepRecords(api_session, "", PyNone, PyNone, NoExchange)
       IN  IF r.reqs = <<>>
           THEN /\ last' = Call("get_sleep_records",
                                MetricsArgs("", PyNone, PyNone), r)
                /\ UNCHANGED << pending, begun >>
           ELSE /\ begun < MaxFetches
                /\ pending' = pending \cup
                      { Suspended(begun + 1, "get_sleep_records", "",
                                  api_session) }
                /\ begun' = begun + 1
                /\ UNCHANGED last
    /\ UNCHANGED << api_session, internal_session, device_json_list, created,
                    closes, hung, nSnap, lastSnap, odd, coordVars, finished,
                    entityVars, lifeVars >>

\* get_sleep_records() from the moment its exchange completes
FinishGetSleepRecords ==
    /\ ~hung
    /\ \E p \in { q \in pending : q.op = "get_sleep_records" },
          x \in MetricsAnswers :
          /\ pending' = pending \ {p}
          /\ last' = Call("get_sleep_records",
                          MetricsArgs("", PyNone, PyNone),
                          GetSleepRecords(p.session, "", PyNone, PyNone, x))
    /\ UNCHANGED << api_session, internal_session, device_json_list, created,
                    closes, hung, nSnap, lastSnap, odd, coordVars, begun,
                    finished, entityVars, lifeVars >>

\* stop() up to its await: the ownership test, then close() begun on the
\* session, which the client goes on holding; `last` names the call in
\* progress.  A client that owns no session returns at once
BeginStop ==
    /\ ~hung
    /\ IF OwnsSession
       THEN /\ Cardinality(stopping) < MaxStops
            /\ closes' = [closes EXCEPT ![api_session] = @ + 1]
            /\ stopping' = stopping \cup { api_session }
       ELSE UNCHANGED << closes, stopping >>
    /\ last' = Call("stop", NoArgs, Returns(PyNone, <<>>, NoExchange))
    /\ UNCHANGED << api_session, internal_session, device_json_list, created,
                    hung, nSnap, lastSnap, odd, coordVars, fetchVars,
                    entityVars, entry >>

\* stop() from the moment close() returns: `self._api_session = None`,
\* whatever the client holds by now
FinishStop ==
    /\ ~hung
    /\ \E s \in stopping :
          /\ stopping' = stopping \ {s}
          /\ api_session' = NoSession
    /\ UNCHANGED << internal_session, device_json_list, created, closes, hung,
                    nSnap, lastSnap, odd, last, coordVars, fetchVars,
                    entityVars, entry >>

-----------------------------------------------------------------------------
(* The config entry (async_setup_entry, async_unload_entry) *)

\* async_setup_entry on the client it builds, which holds no session:
\* start(), the first refresh of the status coordinator, the first refresh
\* of the health coordinator, the entry's data stored, the platforms
\* forwarded.  A first refresh whose update raised raises
\* ConfigEntryNotReady, and so may the forwarding; the function has no
\* handler, so it ends there
SetupEntry ==
    /\ ~hung
    /\ entry = "not_loaded"
    /\ api_session = NoSession
    /\ created < MaxSessions
    /\ LET session == OwnSession(created + 1)
       IN  \E x1 \in DeviceAnswers(nSnap + 1), x2 \in PresenceAnswers,
              x0 \in SleepAnswers, forwarded \in BOOLEAN :
           \E xl \in SummaryChoices(session, x0, "left", 1),
              xr \in SummaryChoices(session, x0, "right", 2) :
              LET r1 == StatusUpdateData(session, device_json_list, x1, x2)
                  r2 == HealthUpdateData(session, x0, xl, xr)
                  first == r1.exc = ""
                  second == first /\ r2.exc = ""
              IN  /\ api_session' = session
                  /\ created' = created + 1
                  /\ internal_session' = TRUE
                  /\ device_json_list' = r1.list
                  /\ nSnap' = IF IsSnapshot(x1) THEN nSnap + 1 ELSE nSnap
                  /\ lastSnap' = IF IsSnapshot(x1) THEN Json(x1.body)
                                                   ELSE lastSnap
                  /\ odd' = IF IsOdd(x1) THEN odd + 1 ELSE odd
                  /\ status_data' = Refreshed(status_data, r1)
                  /\ health_data' = IF first THEN Refreshed(health_data, r2)
                                              ELSE health_data
                  /\ poll' = IF first
                             THEN PollRecord("health", r2, health_data)
                             ELSE PollRecord("status", r1, status_data)
                  /\ last' = IF first THEN r2.call
                             ELSE IF Len(r1.reqs) = 2
                             THEN Call("get_presence", NoArgs,
                                       ApiRequest(session, "GET",
                                           "/api/presence", NoData, x2))
                             ELSE Call("update_device_data", NoArgs,
                                       ApiRequest(session, "GET",
                                           "/api/deviceStatus", Data(<<>>),
                                           x1))
                  /\ sync_states' =
                        IF second
                        THEN [sync_mode |-> FALSE, instant_alarm_sync |-> FALSE]
                        ELSE sync_states
                  /\ entry' = IF second /\ forwarded THEN "loaded"
                                                     ELSE "setup_failed"
    /\ UNCHANGED << closes, hung, fetchVars, cached_schedule, action,
                    pressing, stopping >>

\* async_unload_entry: the platforms unloaded, and only `if unload_ok` the
\* entry's data dropped and the client stopped
UnloadEntry ==
    /\ ~hung
    /\ entry = "loaded"
    /\ \E unload_ok \in BOOLEAN :
          IF unload_ok
          THEN /\ StopSession
               /\ last' = Call("stop", NoArgs,
                               Returns(PyNone, <<>>, NoExchange))
               /\ entry' = "unloaded"
          ELSE /\ entry' = "unload_failed"
               /\ UNCHANGED << api_session, closes, last >>
    /\ UNCHANGED << internal_session, device_json_list, created, hung, nSnap,
                    lastSnap, odd, coordVars, fetchVars, entityVars,
                    stopping >>

-----------------------------------------------------------------------------
(* Specifications *)

\* The rolling history: start() and the device-status fetch
NextHistory ==
    \/ Start
    \/ UpdateDeviceData(MaxSnapshots)

SpecHistory == Init /\ [][NextHistory]_vars

\* The control methods
NextControl ==
    \/ Start
    \/ Stop
    \/ SetTemperature
    \/ TurnOn
    \/ TurnOff
    \/ StopAlarm
    \/ SetLedBrightness
    \/ TriggerAlarm

SpecControl == Init /\ [][NextControl]_vars

\* The status coordinator polling a client
NextStatus ==
    \/ Start
    \/ StatusPoll

SpecStatus == Init /\ [][NextStatus]_vars

\* Device-status fetches that overlap and complete in any order
NextFetch ==
    \/ Start
    \/ BeginUpdateDeviceData
    \/ FinishUpdateDeviceData

SpecFetch == Init /\ [][NextFetch]_vars

\* The tasks that share a client: the polls' fetches, a user's command,
\* start() and stop(), interleaved at their awaits
NextTasks ==
    \/ Start
    \/ BeginStop
    \/ FinishStop
    \/ BeginUpdateDeviceData
    \/ FinishUpdateDeviceData
    \/ BeginTurnOn
    \/ FinishTurnOn
    \/ BeginGetSleepRecords
    \/ FinishGetSleepRecords

SpecTasks == Init /\ [][NextTasks]_vars

\* The life of a config entry
NextEntry ==
    \/ SetupEntry
    \/ UnloadEntry

SpecEntry == Init /\ [][NextEntry]_vars

\* The health coordinator polling a client built with or without a session
NextHealth ==
    \/ HealthPoll

SpecHealth == Init /\ [][NextHealth]_vars

\* The four metrics reads under every combination of filters
NextMetrics ==
    \/ Start
    \/ GetMetrics

SpecMetrics == Init /\ [][NextMetrics]_vars

\* The entities' handlers that run the client in one step
NextActions ==
    \/ Start
    \/ SyncSwitchTurn
    \/ SwitchTurnOn
    \/ SwitchTurnOff
    \/ StopAlarmPress
    \/ ClimateSetTemperature
    \/ NumberSetValue
    \/ ClimateSetHvacMode
    \/ PrimePress

SpecActions == Init /\ [][NextActions]_vars

\* The trigger-alarm button pressed while the sync switches are turned
NextAlarm ==
    \/ Start
    \/ SyncSwitchTurn
    \/ BeginTriggerAlarmPress
    \/ FinishTriggerAlarmPress

SpecAlarm == Init /\ [][NextAlarm]_vars

\* The alarm-schedule text entities of a client
NextSchedule ==
    \/ Start
    \/ TextSetValue
    \/ TextFetchSchedule

SpecSchedule == Init /\ [][NextSchedule]_vars

\* The client: lifecycle, the reads and a control method
Next ==
    \/ Start
    \/ Stop
    \/ AtExit
    \/ UpdateDeviceData(MaxPolls)
    \/ GetSchedules
    \/ GetPresence
    \/ StartPriming

Spec == Init /\ [][Next]_vars

-----------------------------------------------------------------------------
(* Properties of the rolling history *)

Min(a, b) == IF a < b THEN a ELSE b

\* The last call was update_device_data and its request met this transport
\* failure: a request error, or a status other than 200 and 204
FetchFailed(c) ==
    /\ c.op = "update_device_data"
    /\ c.reqs # <<>>
    /\ \/ c.resp.exc \in RequestErrors
       \/ c.resp.exc = "" /\ c.resp.status \notin {200, 204}

\* C1: after update_device_data calls of which N returned a device-status
\* snapshot (a 200 answer carrying a JSON object), the history has length
\* min(N, 10), holds snapshots only, most recent first, device_data is the
\* snapshot of the most recent such fetch, and the length never exceeds 10.
C1_HistoryTracksSnapshots ==
    /\ Len(device_json_list) = Min(nSnap, HistoryCap)
    /\ Len(device_json_list) <= HistoryCap
    /\ \A i \in 1..Len(device_json_list) : device_json_list[i].t = "dict"
    /\ \A i, j \in 1..Len(device_json_list) :
          i < j => device_json_list[i].v > device_json_list[j].v
    /\ nSnap > 0 => DeviceData(device_json_list) = lastSnap

\* C2: an update_device_data call whose transport request fails (a status
\* other than 200 and 204, a connection error or a timeout) leaves the
\* snapshot history, and so device_data, exactly as they were.
C2_FailedFetchKeepsHistory ==
    [][ FetchFailed(last') =>
            /\ device_json_list' = device_json_list
            /\ DeviceData(device_json_list') = DeviceData(device_json_list)
            /\ last'.ret = PyNone /\ last'.exc = "" ]_vars

\* C2 witness: a failed fetch made against a full history
C2_Witness ==
    /\ FetchFailed(last)
    /\ Len(device_json_list) = HistoryCap

\* C2 witness of the empty case: a failed fetch made against no history
C2_WitnessEmpty ==
    /\ FetchFailed(last)
    /\ device_json_list = <<>>

-----------------------------------------------------------------------------
(* Properties of the validated control methods *)

\* The device answered the call's request with this status
Answered(c, status) ==
    c.reqs # <<>> /\ c.resp.exc = "" /\ c.resp.status = status

\* C3: for every temperature outside [55, 110], every side and every
\* duration, given or not, set_temperature returns False and issues no
\* request, whether or not the client holds a session.
C3_OutOfRangeRejected ==
    (last.op = "set_temperature"
        /\ (last.args.temperature_f < 55 \/ last.args.temperature_f > 110))
    => /\ last.ret = PyFalse
       /\ last.exc = ""
       /\ last.reqs = <<>>

\* C3 witness: 111 degrees rejected on a client that was never started
C3_Witness ==
    /\ last.op = "set_temperature"
    /\ last.args.temperature_f = 111
    /\ last.args.duration.some
    /\ api_session = NoSession /\ created = 0
    /\ last.ret = PyFalse /\ last.reqs = <<>>

\* C3 witness on a started client: 54 degrees rejected with a session held
C3_WitnessStarted ==
    /\ last.op = "set_temperature"
    /\ last.args.temperature_f = 54
    /\ api_session # NoSession
    /\ last.ret = PyFalse /\ last.reqs = <<>>

\* The one request C4 expects of set_temperature(side, t, duration)
C4_ExpectedRequest(side, t, duration) ==
    [method |-> "POST", path |-> "/api/deviceStatus", hasJson |-> TRUE,
     json |-> side :> ( IF duration.some
                        THEN [targetTemperatureF |-> t,
                              secondsRemaining |-> duration.v]
                        ELSE [targetTemperatureF |-> t] )]

\* C4: for every temperature in [55, 110] and every side, set_temperature on
\* a started client issues exactly one POST /api/deviceStatus with payload
\* {side: {targetTemperatureF: t}}, secondsRemaining present iff a duration
\* was given, and returns True whenever the device answers 200 or 204.
C4_ValidTemperatureSent ==
    (last.op = "set_temperature"
        /\ last.args.temperature_f >= 55 /\ last.args.temperature_f <= 110
        /\ api_session # NoSession)
    => /\ last.reqs = << C4_ExpectedRequest(last.args.side,
                            last.args.temperature_f, last.args.duration) >>
       /\ (Answered(last, 200) \/ Answered(last, 204))
             => last.exc = "" /\ last.ret = PyTrue

\* The request half of C4 alone: one POST with the stated payload
C4_RequestShape ==
    (last.op = "set_temperature"
        /\ last.args.temperature_f >= 55 /\ last.args.temperature_f <= 110
        /\ api_session # NoSession)
    => last.reqs = << C4_ExpectedRequest(last.args.side,
                         last.args.temperature_f, last.args.duration) >>

\* The arguments of a trigger_alarm call pass the three checks C5 names
AlarmArgsValid(c) ==
    /\ c.args.intensity >= 1 /\ c.args.intensity <= 100
    /\ c.args.pattern \in {"rise", "double"}
    /\ c.args.duration >= 0 /\ c.args.duration <= 180

\* C5: trigger_alarm issues a request iff intensity is in [1, 100], pattern
\* is "rise" or "double" and duration is in [0, 180]; when one of the three
\* is violated it returns False with no request issued, on every client; when
\* all hold, a client that holds a session issues exactly one POST /api/alarm
\* with the flat payload {side, vibrationIntensity, vibrationPattern,
\* duration}.  (A client that holds no session fails the transport's
\* precondition instead: C8.)
C5_AlarmValidated ==
    last.op = "trigger_alarm"
    => /\ ~AlarmArgsValid(last) =>
             last.ret = PyFalse /\ last.exc = "" /\ last.reqs = <<>>
       /\ api_session # NoSession => (last.reqs # <<>> <=> AlarmArgsValid(last))
       /\ (AlarmArgsValid(last) /\ api_session # NoSession) =>
             last.reqs =
                << [method |-> "POST", path |-> "/api/alarm",
                    hasJson |-> TRUE,
                    json |-> [side |-> last.args.side,
                              vibrationIntensity |-> last.args.intensity,
                              vibrationPattern |-> last.args.pattern,
                              duration |-> last.args.duration]] >>

\* C5 witness: a valid alarm at the upper bounds, sent on a started client
C5_Witness ==
    /\ last.op = "trigger_alarm"
    /\ last.args.intensity = 100 /\ last.args.pattern = "double"
    /\ last.args.duration = 180
    /\ api_session # NoSession
    /\ Len(last.reqs) = 1

\* C5 witness of a rejection: pattern "pulse" alone is wrong, nothing is sent
C5_WitnessRejected ==
    /\ last.op = "trigger_alarm"
    /\ last.args.intensity = 1 /\ last.args.pattern = "pulse"
    /\ last.args.duration = 0
    /\ api_session # NoSession
    /\ last.ret = PyFalse /\ last.reqs = <<>>

-----------------------------------------------------------------------------
(* Properties of the transport *)

\* Calls that return api_request's result as it is
RawCalls == {"get_schedules", "get_presence"}

\* Calls that always go to the transport
TransportCalls ==
    RawCalls \cup {"update_device_data", "turn_on", "turn_off", "stop_alarm",
                   "start_priming"}

\* The validated calls go to the transport once their arguments have passed
ReachesTransport(c) ==
    \/ c.op \in TransportCalls
    \/ c.op = "set_temperature"
          /\ c.args.temperature_f >= 55 /\ c.args.temperature_f <= 110
    \/ c.op = "set_led_brightness"
          /\ c.args.brightness >= 0 /\ c.args.brightness <= 100
    \/ c.op = "trigger_alarm" /\ AlarmArgsValid(c)

\* C6: an api_request call on a client that holds a session makes exactly
\* one HTTP attempt (no retry) and maps the answer by its status: 204 yields
\* True, 200 yields the parsed JSON body (of a body that parses), and every
\* other status, other 2xx codes included, yields None.
C6_StatusMapping ==
    (last.op \in RawCalls /\ api_session # NoSession)
    => /\ Len(last.reqs) = 1
       /\ Answered(last, 204) => last.exc = "" /\ last.ret = PyTrue
       /\ (Answered(last, 200) /\ JsonError(last.resp.body) = "")
             => last.exc = "" /\ last.ret = Json(last.resp.body)
       /\ (last.resp.exc = "" /\ last.resp.status \notin {200, 204})
             => last.exc = "" /\ last.ret = PyNone

\* C6 witness: a 201 answer, another 2xx code, came back as None
C6_Witness ==
    /\ last.op = "get_schedules"
    /\ Answered(last, 201)
    /\ last.ret = PyNone

\* C6 witness: a 200 answer came back as its parsed JSON object
C6_WitnessJson ==
    /\ last.op = "get_presence"
    /\ Answered(last, 200)
    /\ last.ret = PyDict(1)

\* C7: on a started client no transport-level failure of a request (network
\* error, connection refused, timeout, unexpected status, unreadable response
\* body) leaves api_request as an exception: each is returned as None.
C7_FailuresByValue ==
    (last.op \in RawCalls /\ api_session # NoSession)
    => /\ last.exc = ""
       /\ ( \/ last.resp.exc # ""
            \/ last.resp.status \notin {200, 204}
            \/ Answered(last, 200) /\ JsonError(last.resp.body) # "" )
          => last.ret = PyNone

\* The part of C7 the code does meet: request errors and unexpected statuses
C7_RequestFailuresByValue ==
    (last.op \in RawCalls /\ api_session # NoSession
        /\ (last.resp.exc # "" \/ last.resp.status \notin {200, 204}))
    => last.exc = "" /\ last.ret = PyNone

\* C8: a read or control operation that reaches the transport while the
\* client holds no session fails with the precondition error, sends no HTTP
\* request and leaves the snapshot history unchanged; it is never turned
\* into a None or False result.
C8_NoSessionIsAnError ==
    [][ (ReachesTransport(last') /\ api_session = NoSession)
        => /\ last'.exc = "AssertionError"
           /\ last'.reqs = <<>>
           /\ device_json_list' = device_json_list
           /\ api_session' = NoSession ]_vars

\* C8 witness: after stop() released an owned session, a call failed on the
\* precondition with a snapshot in the history
C8_Witness ==
    /\ last.op \in TransportCalls
    /\ last.exc = "AssertionError"
    /\ api_session = NoSession /\ created > 0
    /\ Len(device_json_list) > 0

\* C8 witness before the first start()
C8_WitnessUnstarted ==
    /\ last.op \in TransportCalls
    /\ last.exc = "AssertionError"
    /\ api_session = NoSession /\ created = 0

-----------------------------------------------------------------------------
(* Properties of the lifecycle *)

\* C9: start() is idempotent.  A start() on a client that holds a session
\* creates none and keeps the held session and the ownership flag, so a run
\* of start() calls with no stop() between them creates at most one session;
\* a start() on a client that holds none creates exactly one; and with a
\* session supplied at construction start() never creates a session and
\* never marks the session as owned.
C9_StartIdempotent ==
    [][ last'.op = "start" =>
          /\ api_session # NoSession =>
                /\ api_session' = api_session
                /\ created' = created
                /\ internal_session' = internal_session
          /\ api_session = NoSession =>
                /\ created' = created + 1
                /\ api_session' = OwnSession(created')
                /\ closes'[api_session'] = 0
          /\ api_session' # NoSession
          /\ api_session'.owner = "external" =>
                ~internal_session' /\ created' = 0 ]_vars

\* C9 witness: start() returned on a client built with an external session
C9_Witness ==
    /\ last.op = "start"
    /\ api_session = ExtSession
    /\ ~internal_session
    /\ created = 0

\* C9 witness: start() returned holding the second session the client built
C9_WitnessRestart ==
    /\ last.op = "start"
    /\ api_session = OwnSession(2)
    /\ closes[OwnSession(1)] = 1

\* C10: across start(), stop() and at_exit() calls, a session is closed only
\* if the client created it and held it: the external session is never
\* closed or dropped, each owned session is closed at most once, the held
\* session is never a closed one, and a stop() on a client that holds no
\* session, or only the external one, changes nothing and raises nothing.
C10_StopClosesOwnedOnly ==
    [][ /\ closes'[ExtSession] = 0
        /\ api_session = ExtSession => api_session' = ExtSession
        /\ \A k \in 1..MaxSessions :
              /\ closes'[OwnSession(k)] <= 1
              /\ closes'[OwnSession(k)] # closes[OwnSession(k)] =>
                    /\ api_session = OwnSession(k)
                    /\ internal_session
                    /\ k <= created
                    /\ api_session' = NoSession
        /\ api_session' # NoSession => closes'[api_session'] = 0
        /\ last'.op \in {"stop", "at_exit"} =>
              /\ last'.exc = ""
              /\ (api_session = NoSession \/ api_session = ExtSession) =>
                    UNCHANGED << api_session, internal_session, closes,
                                 created, device_json_list >> ]_vars

\* C10 witness: stop() returned with the one owned session closed once
C10_Witness ==
    /\ last.op = "stop"
    /\ api_session = NoSession
    /\ created = 1
    /\ closes[OwnSession(1)] = 1

\* C10 witness: stop() returned and the external session is still held
C10_WitnessExternal ==
    /\ last.op = "stop"
    /\ api_session = ExtSession
    /\ closes[ExtSession] = 0

-----------------------------------------------------------------------------
(* Properties of the shutdown hook *)

\* C11: at_exit always terminates with the owned session released: once
\* at_exit has been called the calling thread is not blocked, whether or not
\* an event loop is running in it, and the client holds no session it owns.
C11_AtExitReleasesSession ==
    last.op = "at_exit" => ~hung /\ ~OwnsSession

\* at_exit called with no loop running: stop() ran and the session is released
C11_ReleasedWithoutLoop ==
    /\ last.op = "at_exit"
    /\ ~hung
    /\ created = 1 /\ closes[OwnSession(1)] = 1
    /\ api_session = NoSession

-----------------------------------------------------------------------------
(* Properties of the status coordinator *)

StatusRequest == Request("GET", "/api/deviceStatus", Data(<<>>))
PresenceRequest == Request("GET", "/api/presence", NoData)

\* The exchange gave the transport nothing: a request error, or a status
\* other than 200 and 204
AbsentAnswer(x) ==
    \/ x.exc \in RequestErrors
    \/ x.exc = "" /\ x.status \notin {200, 204}

\* The exchange was answered 200 with a non-empty JSON object
ObjectAnswer(x) == x.exc = "" /\ x.status = 200 /\ x.body.txt = "{..}"

\* C12: a status poll sends GET /api/deviceStatus first and GET
\* /api/presence second, the second only once the first exchange has come
\* back without raising; a poll that returns has sent both and returns, and
\* caches, the client's current snapshot with the presence object the device
\* answered under _presence; when the presence fetch is Absent (or gives an
\* empty object) and the snapshot is an object, the poll still returns and
\* _presence is exactly the default {left: {present: false}, right:
\* {present: false}}.
C12_StatusPollMerges ==
    poll.op = "status" =>
        /\ poll.reqs \in { <<>>, << StatusRequest >>,
                           << StatusRequest, PresenceRequest >> }
        /\ Len(poll.resps) = Len(poll.reqs)
        /\ Len(poll.reqs) = 2 => JsonError(poll.resps[1].body) # "JSONDecodeError"
        /\ poll.exc = "" =>
              /\ poll.reqs = << StatusRequest, PresenceRequest >>
              /\ poll.ret.t = "composite"
              /\ poll.ret.device = DeviceData(device_json_list)
              /\ ObjectAnswer(poll.resps[2]) =>
                    poll.ret.presence = PyDict(poll.resps[2].body.n)
              /\ status_data = poll.ret
        /\ ( /\ Len(poll.reqs) = 2
             /\ \/ AbsentAnswer(poll.resps[2])
                \/ poll.resps[2].body.txt = "{}"
             /\ DeviceData(device_json_list).t = "dict" ) =>
              /\ poll.exc = ""
              /\ poll.ret.presence = DefaultPresence
              /\ PresentSides(poll.ret.presence) = {}

\* C12 witness: the snapshot of this poll merged with a refused presence fetch
C12_Witness ==
    /\ poll.op = "status"
    /\ poll.exc = ""
    /\ ObjectAnswer(poll.resps[1])
    /\ poll.resps[2].status = 500
    /\ poll.ret.device = PyDict(1)
    /\ poll.ret.presence = DefaultPresence

\* C12 witness: the snapshot merged with the presence object just fetched
C12_WitnessPresent ==
    /\ poll.op = "status"
    /\ poll.exc = ""
    /\ ObjectAnswer(poll.resps[1])
    /\ ObjectAnswer(poll.resps[2])
    /\ poll.ret = [t |-> "composite", device |-> PyDict(1),
                   presence |-> PyDict(2)]
    /\ IsOn(status_data, "right") /\ ~IsOn(status_data, "left")

\* C13: when a step of a status poll raises (the assertion on a client
\* without a session, a device-status or presence body that does not parse,
\* the merge of a device_data that is not an object), the poll raises that
\* same exception, returns no composite, and the composite cached before the
\* poll is still the coordinator's data.
C13_RaisedPollKeepsCache ==
    poll.op = "status" =>
        /\ poll.reqs = <<>> => poll.exc = "AssertionError"
        /\ ( /\ Len(poll.resps) >= 1
             /\ JsonError(poll.resps[1].body) = "JSONDecodeError" ) =>
              poll.exc = "JSONDecodeError" /\ Len(poll.reqs) = 1
        /\ ( /\ Len(poll.resps) = 2
             /\ JsonError(poll.resps[2].body) = "JSONDecodeError" ) =>
              poll.exc = "JSONDecodeError"
        /\ ( /\ Len(poll.resps) = 2
             /\ JsonError(poll.resps[2].body) # "JSONDecodeError"
             /\ DeviceData(device_json_list).t # "dict" ) =>
              poll.exc = "TypeError"
        /\ poll.exc # "" =>
              /\ poll.ret = PyNone
              /\ status_data = poll.before

\* C13 witness: the presence fetch raised with a composite already cached
C13_Witness ==
    /\ poll.op = "status"
    /\ Len(poll.reqs) = 2
    /\ poll.exc = "JSONDecodeError"
    /\ poll.before.t = "composite"
    /\ status_data = poll.before

\* C13 witness: the merge raised on a device_data that is a JSON array
C13_WitnessMerge ==
    /\ poll.op = "status"
    /\ poll.exc = "TypeError"
    /\ DeviceData(device_json_list) = PyList(1)
    /\ status_data = poll.before

\* The composite's device fields are the object this poll's device-status
\* fetch was answered with
FreshDevice(c) ==
    /\ c.exc = ""
    /\ ObjectAnswer(c.resps[1])
    /\ c.ret.device = PyDict(c.resps[1].body.n)

\* The composite's presence is the object this poll's presence fetch was
\* answered with
FreshPresence(c) ==
    /\ c.exc = ""
    /\ ObjectAnswer(c.resps[2])
    /\ c.ret.presence = PyDict(c.resps[2].body.n)

\* C14: after every status poll the cached composite is either the one this
\* poll returned, built from this poll's device-status answer and this
\* poll's presence answer, or the composite that was cached before the poll.
C14_NoPartialComposite ==
    poll.op = "status" =>
        \/ status_data = poll.before
        \/ /\ poll.exc = ""
           /\ status_data = poll.ret
           /\ FreshDevice(poll)
           /\ FreshPresence(poll)

\* A cached composite of the snapshot of an earlier poll and fresh presence
C14_StaleDeviceFreshPresence ==
    /\ poll.op = "status"
    /\ poll.before.t = "composite"
    /\ FreshPresence(poll)
    /\ AbsentAnswer(poll.resps[1])
    /\ status_data = poll.ret
    /\ status_data.device = poll.before.device
    /\ status_data.presence # poll.before.presence

\* A cached composite of a fresh snapshot and the default presence
C14_FreshDeviceDefaultPresence ==
    /\ poll.op = "status"
    /\ FreshDevice(poll)
    /\ AbsentAnswer(poll.resps[2])
    /\ status_data = poll.ret
    /\ status_data.presence = DefaultPresence

\* Every request the poll made came to nothing: the device was unreachable
Unreachable(c) ==
    /\ c.reqs # <<>>
    /\ \A i \in 1..Len(c.resps) : AbsentAnswer(c.resps[i])

\* The status readings after a poll that found the device unreachable are
\* those of the composite cached before it
C15_StatusReadingsKept ==
    (poll.op = "status" /\ Unreachable(poll) /\ poll.before.t = "composite")
    => /\ status_data.device = poll.before.device
       /\ \A side \in Sides :
             IsOn(status_data, side) = IsOn(poll.before, side)

\* The health readings after a poll that found the device unreachable are
\* those of the result cached before it
C15_HealthReadingsKept ==
    (poll.op = "health" /\ Unreachable(poll) /\ poll.before.t = "health")
    => \A side \in Sides :
          /\ GetSleepRecord(health_data, side)
                = GetSleepRecord(poll.before, side)
          /\ GetVitalsSummaryOf(health_data, side)
                = GetVitalsSummaryOf(poll.before, side)

\* C15: when every request of a poll returns Absent, every reading derived
\* from the coordinator's data keeps the value it had after the last
\* successful poll: the per-side device fields and the presence flags of the
\* status composite, the per-side sleep record and vitals summary of the
\* health result.
C15_UnreachableKeepsReadings ==
    /\ C15_StatusReadingsKept
    /\ C15_HealthReadingsKept

-----------------------------------------------------------------------------
(* Properties of overlapping device-status fetches *)

\* C17: the snapshot history is ordered by the completion of the fetches
\* that produced its entries: it holds the values of the most recent pushes,
\* the latest completed first, whatever the order in which the requests of
\* those fetches were sent.
C17_HistoryInCompletionOrder ==
    /\ Len(device_json_list) = Min(Len(finished), HistoryCap)
    /\ \A i \in 1..Len(device_json_list) :
          device_json_list[i] = finished[Len(finished) + 1 - i].data

\* C17 witness: of two snapshots in the history, the one in front was
\* requested first and completed last
C17_Witness ==
    /\ Len(finished) >= 2
    /\ Len(device_json_list) = Len(finished)
    /\ finished[Len(finished)].id < finished[Len(finished) - 1].id
    /\ device_json_list[1] = finished[Len(finished)].data
    /\ device_json_list[1].t = "dict" /\ device_json_list[2].t = "dict"
    /\ device_json_list[1].v > device_json_list[2].v

-----------------------------------------------------------------------------
(* Properties of the health coordinator *)

\* The sleep fetch was answered 200 with a JSON array
SleepListAnswer(x) == x.exc = "" /\ x.status = 200 /\ x.body.txt = "[..]"

\* The poll's sleep fetch was answered with a list of records
GotRecords(c) ==
    c.op = "health" /\ Len(c.resps) >= 1 /\ SleepListAnswer(c.resps[1])

\* The first record, in response order, of this side; None when there is none
FirstRecord(records, side) ==
    IF \E i \in 1..Len(records) : records[i].side = side
    THEN records[CHOOSE i \in 1..Len(records) :
                    /\ records[i].side = side
                    /\ \A j \in 1..(i - 1) : records[j].side # side]
    ELSE PyNone

\* The positions in the poll's requests of the summary requests for a side
SummaryRequests(c, side) ==
    { i \in 1..Len(c.reqs) :
        /\ c.reqs[i].method = "GET"
        /\ c.reqs[i].path.base = "/api/metrics/vitals/summary"
        /\ c.reqs[i].path.query # <<>>
        /\ c.reqs[i].path.query[1] = Param("side", side) }

\* C18: for every list of sleep records the device answers, a health poll
\* asks for a side's vitals summary only if the list has a record of that
\* side, and a poll that returns has set each side's sleep field to the
\* first record of that side in response order (None if there is none), has
\* made one summary request for each side that has a record and none for a
\* side that has not, whose vitals_summary is None, so 1 + (number of sides
\* with a record) requests in all.
C18_FirstRecordPerSide ==
    GotRecords(poll) =>
        LET records == poll.resps[1].body.items
            withRecord == { side \in Sides : FirstRecord(records, side) # PyNone }
        IN  /\ poll.reqs[1] = Request("GET", Slug("/api/metrics/sleep", <<>>),
                                      NoData)
            /\ \A side \in Sides :
                  SummaryRequests(poll, side) # {} => side \in withRecord
            /\ poll.exc = "" =>
                  /\ \A side \in Sides :
                        /\ poll.ret[side].sleep = FirstRecord(records, side)
                        /\ Cardinality(SummaryRequests(poll, side))
                              = IF side \in withRecord THEN 1 ELSE 0
                        /\ side \notin withRecord =>
                              poll.ret[side].vitals_summary = PyNone
                  /\ Len(poll.reqs) = 1 + Cardinality(withRecord)
                  /\ health_data = poll.ret

\* C18 witness: two left records and no right one; the first is selected and
\* the poll made two requests, none for the right side
C18_Witness ==
    /\ GotRecords(poll)
    /\ poll.exc = ""
    /\ poll.resps[1].body.items
          = << SleepRecord("left", PyStr(1), PyStr(2)),
               SleepRecord("left", PyNone, Missing) >>
    /\ poll.ret.left.sleep = SleepRecord("left", PyStr(1), PyStr(2))
    /\ poll.ret.left.vitals_summary = PyDict(1)
    /\ poll.ret.right = [sleep |-> PyNone, vitals_summary |-> PyNone]
    /\ Len(poll.reqs) = 2
    /\ SummaryRequests(poll, "right") = {}

\* C18 witness: a record of each side, three requests
C18_WitnessBoth ==
    /\ GotRecords(poll)
    /\ poll.exc = ""
    /\ Len(poll.reqs) = 3
    /\ poll.resps[1].body.items[1].side = "right"
    /\ poll.ret.left.vitals_summary = PyDict(1)
    /\ poll.ret.right.vitals_summary = PyDict(2)

\* C19: every vitals-summary request of a health poll is windowed to the
\* record selected for its side: its query is side=<side>, startTime=<the
\* record's entered_bed_at>, endTime=<the record's left_bed_at>, all three
\* present, also when one of the record's times is missing or null.
C19_SummaryWindowed ==
    GotRecords(poll) =>
        \A side \in Sides : \A i \in SummaryRequests(poll, side) :
            LET record == FirstRecord(poll.resps[1].body.items, side)
            IN  poll.reqs[i].path.query
                   = << Param("side", side),
                        Param("startTime", Get(record, "entered_bed_at")),
                        Param("endTime", Get(record, "left_bed_at")) >>

\* The summary of a record that has both times is requested with its window
C19_WholeRecordWindowed ==
    GotRecords(poll) =>
        \A side \in Sides : \A i \in SummaryRequests(poll, side) :
            LET record == FirstRecord(poll.resps[1].body.items, side)
            IN  ( /\ Truthy(Get(record, "entered_bed_at"))
                  /\ Truthy(Get(record, "left_bed_at")) ) =>
                    poll.reqs[i].path.query
                       = << Param("side", side),
                            Param("startTime", record.entered_bed_at),
                            Param("endTime", record.left_bed_at) >>

\* A summary requested with no window at all
C19_Unwindowed ==
    /\ GotRecords(poll)
    /\ \E i \in SummaryRequests(poll, "left") :
          poll.reqs[i].path.query = << Param("side", "left") >>

\* A fetch of the poll failed: it came to nothing, or its body did not parse
FailedFetch(x) == AbsentAnswer(x) \/ JsonError(x.body) = "JSONDecodeError"

\* C20: a health poll one of whose fetches fails, by returning Absent or by
\* raising, fails as a whole: it raises, and the result cached before it is
\* still the coordinator's data.
C20_FailedFetchFailsPoll ==
    ( /\ poll.op = "health"
      /\ \E i \in 1..Len(poll.resps) : FailedFetch(poll.resps[i]) ) =>
        /\ poll.exc # ""
        /\ health_data = poll.before

\* A fetch that raises does fail the poll and keeps the cached result
C20_RaisedFetchFailsPoll ==
    ( /\ poll.op = "health"
      /\ \E i \in 1..Len(poll.resps) :
            JsonError(poll.resps[i].body) = "JSONDecodeError" ) =>
        /\ poll.exc = "JSONDecodeError"
        /\ poll.ret = PyNone
        /\ health_data = poll.before

\* A refused sleep fetch after which the cached records are gone
C20_AbsentReplacesCache ==
    /\ poll.op = "health"
    /\ Len(poll.resps) = 1 /\ AbsentAnswer(poll.resps[1])
    /\ poll.exc = ""
    /\ poll.before.t = "health"
    /\ poll.before.left.sleep # PyNone
    /\ health_data = HealthResult(PyNone, PyNone, PyNone, PyNone)

-----------------------------------------------------------------------------
(* Properties of the metrics reads' query strings *)

MetricsOps ==
    {"get_vitals", "get_vitals_summary", "get_sleep_records", "get_movement"}

MetricsEndpoint(op) ==
    CASE op = "get_vitals" -> "/api/metrics/vitals"
      [] op = "get_vitals_summary" -> "/api/metrics/vitals/summary"
      [] op = "get_sleep_records" -> "/api/metrics/sleep"
      [] op = "get_movement" -> "/api/metrics/movement"

FilterKeys == << "side", "startTime", "endTime" >>

\* The argument a filter key is taken from, and whether it is set
FilterArg(args, key) ==
    CASE key = "side" -> args.side
      [] key = "startTime" -> args.start_time
      [] key = "endTime" -> args.end_time

FilterSet(args, key) ==
    IF key = "side" THEN args.side # "" ELSE Truthy(FilterArg(args, key))

\* The position of a key in the order side, startTime, endTime
FilterRank(key) == CHOOSE i \in 1..3 : FilterKeys[i] = key

MetricsRequested == last.op \in MetricsOps /\ last.reqs # <<>>

\* C21: a metrics read requests its endpoint with exactly the set filters,
\* each once with its own non-empty value, in the order side, startTime,
\* endTime, and with a "?" exactly when at least one filter is set
C21_QueryString ==
    MetricsRequested =>
        LET slug == last.reqs[1].path
            q == slug.query
        IN  /\ last.reqs[1].method = "GET"
            /\ slug.base = MetricsEndpoint(last.op)
            /\ slug.mark = (\E i \in 1..3 : FilterSet(last.args, FilterKeys[i]))
            /\ \A i \in 1..Len(q) :
                  /\ q[i].key \in {"side", "startTime", "endTime"}
                  /\ FilterSet(last.args, q[i].key)
                  /\ q[i].value = FilterArg(last.args, q[i].key)
            /\ \A i, j \in 1..Len(q) :
                  i < j => FilterRank(q[i].key) < FilterRank(q[j].key)
            /\ \A k \in 1..3 :
                  FilterSet(last.args, FilterKeys[k])
                      => \E i \in 1..Len(q) : q[i].key = FilterKeys[k]

\* A movement read with the side and the end set and the start unset
C21_Witness ==
    /\ MetricsRequested
    /\ last.op = "get_movement"
    /\ last.args = MetricsArgs("left", PyStr(0), PyStr(1))
    /\ last.reqs[1].path.mark
    /\ Len(last.reqs[1].path.query) = 2

\* A vitals read with no filter set
C21_WitnessBare ==
    /\ MetricsRequested
    /\ last.op = "get_vitals"
    /\ last.args = MetricsArgs("", PyNone, PyStr(0))
    /\ ~last.reqs[1].path.mark

-----------------------------------------------------------------------------
(* Properties of the request payloads *)

\* C22: every GET request the client issues carries no JSON payload
C22_GetIsBodyless ==
    \A i \in 1..Len(last.reqs) :
        last.reqs[i].method = "GET" => ~last.reqs[i].hasJson

\* The reads other than the device-status fetch send no payload, and every
\* POST sends one
C22_OtherReadsBodyless ==
    \A i \in 1..Len(last.reqs) :
        /\ last.reqs[i].method = "GET" /\ last.op # "update_device_data"
              => ~last.reqs[i].hasJson
        /\ last.reqs[i].method = "POST" => last.reqs[i].hasJson

-----------------------------------------------------------------------------
(* Properties of the push on the history *)

\* What api_request returned to an update_device_data call that came back
FetchResult(c) ==
    ApiRequest(ExtSession, "GET", "/api/deviceStatus", Data(<<>>), c.resp).ret

FetchReturned(c) ==
    c.op = "update_device_data" /\ c.reqs # <<>> /\ c.exc = ""

\* C25: an update_device_data call whose fetch returned a value other than
\* None puts that value at the front of the history, an empty object
\* included, and only a fetch that returned None leaves the history as it was
C25_PushedUnlessAbsent ==
    [][ FetchReturned(last') =>
            IF FetchResult(last') = PyNone
            THEN device_json_list' = device_json_list
            ELSE device_json_list' =
                    Take(<< FetchResult(last') >> \o device_json_list,
                         HistoryCap) ]_vars

\* The same with None, False and the empty containers all left out, as the
\* code's truthiness test leaves them out
C25_PushedWhenTruthy ==
    [][ FetchReturned(last') =>
            IF ~Truthy(FetchResult(last'))
            THEN device_json_list' = device_json_list
            ELSE device_json_list' =
                    Take(<< FetchResult(last') >> \o device_json_list,
                         HistoryCap) ]_vars

-----------------------------------------------------------------------------
(* Properties of the derived projections *)

\* C24: in every state of the client every convenience property returns
C24_ProjectionsNeverRaise ==
    \A name \in TopProjections \cup SideProjections :
        ProjectionError(DeviceData(device_json_list), name) = ""

\* With an empty history, or an object at its front, they all return
C24_ObjectFrontReturns ==
    (device_json_list = <<>> \/ device_json_list[1].t = "dict")
    => \A name \in TopProjections \cup SideProjections :
           ProjectionError(DeviceData(device_json_list), name) = ""

-----------------------------------------------------------------------------
(* Properties of the alarm-schedule text entity *)

\* The submitted text is not JSON, not a JSON object, or has a key that is
\* not a day of the week
TextRejected(value) ==
    \/ value.txt # "{..}"
    \/ \E day \in value.days :
          day \notin {"monday", "tuesday", "wednesday", "thursday", "friday",
                      "saturday", "sunday"}

SetValueDone(a) == a.handler = "text.async_set_value"

\* C27: an alarm-schedule text that is not JSON, not a JSON object, or has
\* a key other than monday..sunday makes no client call and leaves the
\* cached schedule alone; async_set_value changes the cache only of its own
\* side, only to the submitted schedule, and only when its one request was
\* answered and update_alarm_schedule returned True; a transport failure
\* leaves the cache alone
C27_ScheduleUpdateGuarded ==
    [][ SetValueDone(action') =>
          /\ TextRejected(action'.arg) =>
                /\ action'.calls = <<>>
                /\ cached_schedule' = cached_schedule
          /\ ~TextRejected(action'.arg) => Len(action'.calls) = 1
          /\ cached_schedule' # cached_schedule =>
                /\ Len(action'.calls) = 1
                /\ action'.calls[1].reqs # <<>>
                /\ ~AbsentAnswer(action'.calls[1].resp)
                /\ action'.calls[1].ret = PyTrue
                /\ cached_schedule' =
                      [cached_schedule EXCEPT
                          ![action'.side] = Schedule(action'.arg.days)]
          /\ (action'.calls # <<>> /\ action'.calls[1].reqs # <<>>
                /\ AbsentAnswer(action'.calls[1].resp))
                => cached_schedule' = cached_schedule ]_vars

\* An accepted schedule was posted, the device answered 204, and the cache
\* of that side holds the submitted schedule
C27_Witness ==
    /\ SetValueDone(action)
    /\ ~TextRejected(action.arg)
    /\ Len(action.calls) = 1
    /\ Answered(action.calls[1], 204)
    /\ action.arg.days = {"monday", "sunday"}
    /\ cached_schedule[action.side] = Schedule({"monday", "sunday"})

\* A text with an unknown day was submitted over a cached schedule, which
\* is kept
C27_WitnessRejected ==
    /\ SetValueDone(action)
    /\ action.arg.txt = "{..}"
    /\ "funday" \in action.arg.days
    /\ action.calls = <<>>
    /\ cached_schedule[action.side] = Schedule({"monday"})

\* A posted schedule met a timeout over a cached schedule, which is kept
C27_WitnessFailed ==
    /\ SetValueDone(action)
    /\ Len(action.calls) = 1
    /\ action.calls[1].reqs # <<>>
    /\ action.calls[1].resp.exc = "TimeoutError"
    /\ action.arg.days = {"monday", "sunday"}
    /\ cached_schedule[action.side] = Schedule({"tuesday"})

-----------------------------------------------------------------------------
(* Properties of the entities' handlers *)

\* The handlers of user actions that call a control method of the client
ControlHandlers ==
    {"switch.async_turn_on", "switch.async_turn_off", "button.stop_alarm",
     "button.trigger_alarm", "button.prime", "climate.async_set_temperature",
     "number.async_set_native_value", "text.async_set_value"}

\* The handler made at least one control call and every call it made returned
CallsReturned(a) ==
    /\ a.handler \in ControlHandlers
    /\ a.calls # <<>>
    /\ \A i \in 1..Len(a.calls) : a.calls[i].exc = ""

\* C23: a user action whose control calls have all returned, True or False,
\* has asked the status coordinator for a refresh
C23_RefreshAfterControl ==
    CallsReturned(action) => action.refresh

\* The same for the handlers other than the alarm-schedule text
C23_OthersRefresh ==
    (CallsReturned(action) /\ action.handler # "text.async_set_value")
    => action.refresh

\* A handler whose call raised has asked for no refresh
C23_RaisedAsksNoRefresh ==
    (action.handler \in ControlHandlers /\ action.exc # "")
    => ~action.refresh

\* The sides of the calls a handler made, in order
CallSides(a) == [i \in 1..Len(a.calls) |-> a.calls[i].args.side]

SyncHandlers ==
    {"switch.async_turn_on", "switch.async_turn_off", "button.stop_alarm",
     "climate.async_set_temperature", "number.async_set_native_value"}

\* What the claim expects of a handler, by the flag in force when it started
ExpectedSides(a) ==
    IF a.handler = "button.trigger_alarm"
    THEN IF a.arg.sync THEN << a.side, IF a.side = "left" THEN "right"
                                                         ELSE "left" >>
                       ELSE << a.side >>
    ELSE IF a.arg.sync THEN << "left", "right" >> ELSE << a.side >>

FannedOut(a) ==
    /\ a.handler \in SyncHandlers \cup {"button.trigger_alarm"}
    /\ \A i \in 1..Len(a.calls) : a.calls[i].exc = ""

\* C28: a power, temperature or stop-alarm action none of whose calls raised
\* has made two calls, left then right, when sync mode was on as it started,
\* and one call for its own side when it was off, whatever the first call
\* returned; a trigger-alarm action has made one call for its own side and,
\* exactly when instant-alarm sync was on as it started, a second for the
\* other side with the same intensity, pattern and duration
C28_FanOutByFlagAtStart ==
    FannedOut(action) =>
        /\ CallSides(action) = ExpectedSides(action)
        /\ action.handler = "button.trigger_alarm" =>
              \A i \in 1..Len(action.calls) :
                  /\ action.calls[i].args.intensity = action.arg.value.intensity
                  /\ action.calls[i].args.pattern = action.arg.value.pattern
                  /\ action.calls[i].args.duration = action.arg.value.duration

\* The same for the handlers that read their flag before their first await
C28_SyncModeFanOut ==
    (FannedOut(action) /\ action.handler \in SyncHandlers)
    => CallSides(action) = ExpectedSides(action)

\* Sync mode on, the first call returned False and the second was made
C28_SecondAfterFalse ==
    /\ action.handler = "switch.async_turn_off"
    /\ action.arg.sync
    /\ Len(action.calls) = 2
    /\ action.calls[1].ret = PyFalse
    /\ action.calls[2].ret = PyTrue
    /\ action.refresh

\* Without the restriction to calls that returned: a first call that raises
\* ends the handler after one call
C28_FanOutEvenWhenRaised ==
    action.handler \in SyncHandlers
    => Len(action.calls) = Len(ExpectedSides(action))

-----------------------------------------------------------------------------
(* Properties of the tasks that share a client *)

\* C26: at most one HTTP exchange of a client is in flight at a time
C26_OneLiveExchange == Cardinality(pending) <= 1

\* The status poll's fetch and a user's command in flight together
C26_PollAndCommandOverlap ==
    /\ \E p \in pending : p.op = "update_device_data"
    /\ \E p \in pending : p.op = "turn_on"

\* The session is one on which no close() has been called
Open(session) == session # NoSession /\ closes[session] = 0

\* No request is made on a session whose close() has begun
C29_NoRequestOnClosing ==
    [][ \A p \in pending' \ pending : closes[p.session] = 0 ]_vars

\* While the most recent call is a start() that returned, no stop() having
\* begun since, the client holds an open session
C29_StartedHoldsSession == last.op = "start" => Open(api_session)

\* C29: under every interleaving of stop() with the polls' fetches, the
\* commands and start(), no request is made on a session whose close() has
\* begun, and once start() has returned and no stop() has begun since, the
\* client holds an open session
C29_StopInterleaving ==
    [][ /\ \A p \in pending' \ pending : closes[p.session] = 0
        /\ last'.op = "start" =>
              (api_session' # NoSession /\ closes'[api_session'] = 0) ]_vars

-----------------------------------------------------------------------------
(* Properties of the config entry *)

\* Every session start() built has had close() called on it
AllReleased == \A k \in 1..created : closes[OwnSession(k)] > 0

\* C30: once the entry's setup has failed, or its unload has been attempted,
\* every session the client built in setup has been closed by stop()
C30_SessionReleasedOnExit ==
    entry \in {"setup_failed", "unloaded", "unload_failed"} => AllReleased

\* An unload whose platforms unloaded has stopped the client
C30_UnloadedReleases ==
    entry = "unloaded" => AllReleased /\ api_session = NoSession

\* A setup that failed, or an unload whose platforms did not unload, leaves
\* the session open
C30_FailureLeaks ==
    entry \in {"setup_failed", "unload_failed"}
    => ~AllReleased /\ api_session = OwnSession(1)

====
